---- MODULE Spec2Model ----
(***************************************************************************)
(* Backlog forecasting engine of the issue-analytics dashboard:            *)
(* calculateRegression and generateForecast (services/forecast).           *)
(*                                                                         *)
(* A JavaScript number is modelled as an exact fraction [num, den] in      *)
(* lowest terms with den >= 0.  den = 0 encodes the non-finite values:     *)
(* 0/0 is NaN, 1/0 is +Infinity, -1/0 is -Infinity.  Binary rounding of    *)
(* IEEE doubles and the sign of zero are not modelled.                     *)
(***************************************************************************)
EXTENDS Integers, Sequences, FiniteSets, TLC

VARIABLES op, pc, history, config, values, frame, ret, calls,
          repoName, responses, items, dashboard, inflight

vars == <<op, pc, history, config, values, frame, ret, calls,
          repoName, responses, items, dashboard, inflight>>

\* ------------------------------------------------------------------------
\* JavaScript numbers
\* ------------------------------------------------------------------------

Abs(x) == IF x < 0 THEN -x ELSE x

Sign(x) == IF x < 0 THEN -1 ELSE IF x > 0 THEN 1 ELSE 0

RECURSIVE GCD(_, _)
GCD(a, b) == IF b = 0 THEN a ELSE GCD(b, a % b)

\* the fraction n/d in lowest terms; n/0 is NaN or a signed Infinity
Norm(n, d) ==
  IF d = 0 THEN [num |-> Sign(n), den |-> 0]
  ELSE LET s == Sign(d)
           g == GCD(Abs(n), Abs(d))
       IN [num |-> (s * n) \div g, den |-> (s * d) \div g]

Number(k) == [num |-> k, den |-> 1]

NaN == [num |-> 0, den |-> 0]

\* the value `undefined` (an absent array element, an unset optional field)
Undefined == [undefined |-> TRUE]

IsNaN(x) == x.den = 0 /\ x.num = 0

IsFinite(x) == x.den > 0

\* ToNumber: undefined converts to NaN
ToNumber(v) == IF v = Undefined THEN NaN ELSE v

\* x + y
Add(x, y) ==
  IF x.den = 0 /\ y.den = 0 THEN (IF x.num = y.num THEN x ELSE NaN)
  ELSE IF x.den = 0 THEN x
  ELSE IF y.den = 0 THEN y
  ELSE LET g == GCD(x.den, y.den)
       IN Norm(x.num * (y.den \div g) + y.num * (x.den \div g),
               (x.den \div g) * y.den)

Neg(x) == [num |-> 0 - x.num, den |-> x.den]

\* x - y
Sub(x, y) == Add(x, Neg(y))

\* x * y
Mul(x, y) ==
  IF x.den = 0 \/ y.den = 0 THEN Norm(x.num * y.num, 0)
  ELSE LET g1 == GCD(Abs(x.num), y.den)
           g2 == GCD(Abs(y.num), x.den)
       IN Norm((x.num \div g1) * (y.num \div g2),
               (x.den \div g2) * (y.den \div g1))

\* x / y: 0/0 is NaN, x/0 is a signed Infinity
Div(x, y) == Mul(x, Norm(y.den, y.num))

\* x < y (false when either is NaN)
Less(x, y) ==
  IF IsNaN(x) \/ IsNaN(y) THEN FALSE
  ELSE IF x.den = 0 /\ y.den = 0 THEN x.num < y.num
  ELSE x.num * y.den < y.num * x.den

\* x >= y (false when either is NaN)
GreaterEq(x, y) == ~IsNaN(x) /\ ~IsNaN(y) /\ ~Less(x, y)

\* Math.max(x, y): NaN when either is NaN
MathMax(x, y) ==
  IF IsNaN(x) \/ IsNaN(y) THEN NaN
  ELSE IF Less(x, y) THEN y ELSE x

\* Math.round(x): the nearest integer, halves rounded up
MathRound(x) ==
  IF x.den = 0 THEN x
  ELSE Number((2 * x.num + x.den) \div (2 * x.den))

\* values.reduce((acc, v) => acc + v, 0)
RECURSIVE SumUpTo(_, _)
SumUpTo(s, k) == IF k = 0 THEN Number(0) ELSE Add(SumUpTo(s, k - 1), s[k])

Sum(s) == SumUpTo(s, Len(s))

\* ------------------------------------------------------------------------
\* calculateRegression: least-squares line through (i, values[i]), i from 0
\* ------------------------------------------------------------------------

\* the array index (0-based) of the sequence position k (1-based)
Index(k) == k - 1

\* calculateRegression without the n === 0 early return
calculateRegression_noEmptyGuard(vals) ==
  LET n == Len(vals)
      xSum == Sum([k \in 1..n |-> Number(Index(k))])
      ySum == Sum(vals)
      xxSum == Sum([k \in 1..n |-> Number(Index(k) * Index(k))])
      xySum == Sum([k \in 1..n |-> Mul(Number(Index(k)), vals[k])])
      m == Div(Sub(Mul(Number(n), xySum), Mul(xSum, ySum)),
               Sub(Mul(Number(n), xxSum), Mul(xSum, xSum)))
      b == Div(Sub(ySum, Mul(m, xSum)), Number(n))
  IN [m |-> m, b |-> b]

\* calculateRegression with the intercept taken as the mean, b = ySum / n
calculateRegression_meanIntercept(vals) ==
  LET n == Len(vals)
      xSum == Sum([k \in 1..n |-> Number(Index(k))])
      ySum == Sum(vals)
      xxSum == Sum([k \in 1..n |-> Number(Index(k) * Index(k))])
      xySum == Sum([k \in 1..n |-> Mul(Number(Index(k)), vals[k])])
      m == Div(Sub(Mul(Number(n), xySum), Mul(xSum, ySum)),
               Sub(Mul(Number(n), xxSum), Mul(xSum, xSum)))
      b == Div(ySum, Number(n))
  IN IF n = 0 THEN [m |-> Number(0), b |-> Number(0)]
     ELSE [m |-> m, b |-> b]

calculateRegression(vals) ==
  LET n == Len(vals)
      xSum == Sum([k \in 1..n |-> Number(Index(k))])
      ySum == Sum(vals)
      xxSum == Sum([k \in 1..n |-> Number(Index(k) * Index(k))])
      xySum == Sum([k \in 1..n |-> Mul(Number(Index(k)), vals[k])])
      m == Div(Sub(Mul(Number(n), xySum), Mul(xSum, ySum)),
               Sub(Mul(Number(n), xxSum), Mul(xSum, xSum)))
      b == Div(Sub(ySum, Mul(m, xSum)), Number(n))
  IN IF n = 0 THEN [m |-> Number(0), b |-> Number(0)]
     ELSE [m |-> m, b |-> b]

\* the fitted line evaluated at index x: m * x + b
TrendAt(trend, x) == Add(Mul(trend.m, Number(x)), trend.b)

\* ------------------------------------------------------------------------
\* generateForecast
\* ------------------------------------------------------------------------

\* a value no call has produced yet
NoValue == [none |-> TRUE]

\* currentBacklog kept at module level: a call starts from the value the
\* previous call left behind
currentBacklogStart_moduleLevel ==
  IF frame = NoValue THEN Number(0) ELSE frame.currentBacklog

\* let currentBacklog = 0: a local of the call, set anew by every call
currentBacklogStart == Number(0)

\* currentBacklog after the first k buckets: the running sum of
\* created - resolved, which is not clamped
RECURSIVE currentBacklog(_, _)
currentBacklog(hist, k) ==
  IF k = 0 THEN currentBacklogStart
  ELSE Add(currentBacklog(hist, k - 1), Sub(hist[k].created, hist[k].resolved))

\* backlogHistory with the Math.max(0, ...) floor forgotten
backlogHistory_noFloor(hist) ==
  [k \in 1..Len(hist) |-> currentBacklog(hist, k)]

\* backlogHistory: each running sum floored at 0
backlogHistory(hist) ==
  [k \in 1..Len(hist) |-> MathMax(Number(0), currentBacklog(hist, k))]

\* historyChart with projectedOpen set on the historical points too
historyChart_bothFields(hist) ==
  [k \in 1..Len(hist) |->
     [name |-> hist[k].name,
      historicalOpen |-> backlogHistory(hist)[k],
      projectedOpen |-> backlogHistory(hist)[k]]]

\* the historical part of chartData
historyChart(hist) ==
  [k \in 1..Len(hist) |->
     [name |-> hist[k].name,
      historicalOpen |-> backlogHistory(hist)[k],
      projectedOpen |-> Undefined]]

createdValues(hist) == [k \in 1..Len(hist) |-> hist[k].created]

resolvedValues(hist) == [k \in 1..Len(hist) |-> hist[k].resolved]

lastMonthIndex(hist) == Len(hist) - 1

nextMonths == <<"Next M1", "Next M2", "Next M3">>

BASELINE_MEETING_HOURS == 6

BASELINE_REVIEW_HOURS == 24

\* workHoursAvailable without the 10 hour minimum
workHoursAvailable_noFloor(cfg) == Sub(Number(40), cfg.weeklyMeetingHours)

\* A. meeting impact
workHoursAvailable(cfg) ==
  MathMax(Number(10), Sub(Number(40), cfg.weeklyMeetingHours))

baselineWorkHours == Number(40 - BASELINE_MEETING_HOURS)

\* meetingFactor relative to the full 40 hour week instead of the baseline
meetingFactor_fullWeek(cfg) == Div(workHoursAvailable(cfg), Number(40))

meetingFactor(cfg) == Div(workHoursAvailable(cfg), baselineWorkHours)

\* B. code review impact: 1 + reviewDiff * 0.005
reviewDiff(cfg) == Sub(Number(BASELINE_REVIEW_HOURS), cfg.codeReviewAvgHours)

reviewFactor(cfg) == Add(Number(1), Mul(reviewDiff(cfg), Norm(5, 1000)))

\* C. developer count impact
devFactor(cfg) ==
  LET devChange == cfg.developerCountChange
  IN IF GreaterEq(devChange, Number(0))
     THEN Add(Number(1), Mul(devChange, Norm(15, 100)))
     ELSE MathMax(Norm(1, 10), Add(Number(1), Mul(devChange, Norm(18, 100))))

totalEfficiencyMultiplier(cfg) ==
  Mul(Mul(meetingFactor(cfg), reviewFactor(cfg)), devFactor(cfg))

\* the value projection starts from: backlogHistory[backlogHistory.length - 1]
startBacklog(hist) ==
  IF Len(hist) = 0 THEN Undefined ELSE backlogHistory(hist)[Len(hist)]

\* predictedCreated with the incomingIssueRate not applied
predictedCreated_noRate(hist, cfg, i) ==
  LET futureIndex == lastMonthIndex(hist) + 1 + i
      createdTrend == calculateRegression(createdValues(hist))
  IN MathMax(Number(0), TrendAt(createdTrend, futureIndex))

predictedCreated(hist, cfg, i) ==
  LET futureIndex == lastMonthIndex(hist) + 1 + i
      createdTrend == calculateRegression(createdValues(hist))
  IN MathMax(Number(0),
             Mul(TrendAt(createdTrend, futureIndex), cfg.incomingIssueRate))

predictedResolved(hist, cfg, i) ==
  LET futureIndex == lastMonthIndex(hist) + 1 + i
      resolvedTrend == calculateRegression(resolvedValues(hist))
  IN MathMax(Number(0),
             Mul(TrendAt(resolvedTrend, futureIndex),
                 totalEfficiencyMultiplier(cfg)))

\* projectStep adding the predicted creation without taking the predicted
\* resolution off
projectStep_noResolution(prev, hist, cfg, i) ==
  MathMax(Number(0), Add(ToNumber(prev), predictedCreated(hist, cfg, i)))

\* projectStep carrying the rounded value to the next month
projectStep_roundedCarry(prev, hist, cfg, i) ==
  LET netChange == Sub(predictedCreated(hist, cfg, i),
                       predictedResolved(hist, cfg, i))
  IN MathRound(MathMax(Number(0), Add(ToNumber(prev), netChange)))

\* one run of the forEach callback on the running projectedBacklog `prev`:
\* projectedBacklog += netChange; projectedBacklog = Math.max(0, ...)
projectStep(prev, hist, cfg, i) ==
  LET netChange == Sub(predictedCreated(hist, cfg, i),
                       predictedResolved(hist, cfg, i))
  IN MathMax(Number(0), Add(ToNumber(prev), netChange))

\* projectedBacklog after the forEach callback ran for indices 0..j-1
RECURSIVE projectedBacklog(_, _, _)
projectedBacklog(hist, cfg, j) ==
  IF j = 0 THEN startBacklog(hist)
  ELSE projectStep(projectedBacklog(hist, cfg, j - 1), hist, cfg, j - 1)

\* the points pushed by the forEach over nextMonths
projectionChart(hist, cfg) ==
  [j \in 1..Len(nextMonths) |->
     [name |-> nextMonths[j],
      historicalOpen |-> Undefined,
      projectedOpen |-> MathRound(projectedBacklog(hist, cfg, j))]]

\* generateForecast pushing the projected points ahead of the history
generateForecast_projectionFirst(hist, cfg) ==
  projectionChart(hist, cfg) \o historyChart(hist)

generateForecast(hist, cfg) == historyChart(hist) \o projectionChart(hist, cfg)

\* ------------------------------------------------------------------------
\* Inputs
\* ------------------------------------------------------------------------

\* largest created / resolved count of a step-shaped series
MaxLevel == 2

\* largest |slope| and |intercept| of the lines given to calculateRegression
MaxSlope == 3

MaxIntercept == 7

months ==
  <<"Jan", "Feb", "Mar", "Apr", "May", "Jun",
    "Jul", "Aug", "Sep", "Oct", "Nov", "Dec">>

\* history lengths: the 12 buckets the aggregator produces, and wrong sizes
HistoryLengths == {0, 1, 12, 13}

Levels == (0..MaxLevel) \cup {10}

\* a for the first half of the buckets, b for the rest
StepSeries(a, b, n) == [k \in 1..n |-> Number(IF 2 * k <= n THEN a ELSE b)]

\* y_i = a * i + c at the indices 0..n-1
LineSeries(a, c, n) == [k \in 1..n |-> Number(a * Index(k) + c)]

\* lines whose values are counts (non-negative) over 13 buckets
HistoryLines == {<<3, 7>>, <<1, 0>>, <<-1, 12>>}

HistorySeries(n) ==
  {StepSeries(a, b, n) : a \in Levels, b \in Levels}
    \cup {LineSeries(l[1], l[2], n) : l \in HistoryLines}

MonthlyStats(cs, rs) ==
  [k \in 1..Len(cs) |->
     [name |-> months[(Index(k) % Len(months)) + 1],
      created |-> cs[k], resolved |-> rs[k]]]

Histories ==
  UNION {{MonthlyStats(cs, rs) : cs \in HistorySeries(n), rs \in HistorySeries(n)}
           : n \in HistoryLengths}

\* the dashboard's initial simConfig
BaselineConfig ==
  [developerCountChange |-> Number(0), incomingIssueRate |-> Number(1),
   weeklyMeetingHours |-> Number(6), codeReviewAvgHours |-> Number(24)]

DevChanges == {Number(d) : d \in {-7, -6, -5, -1, 0, 1, 2, 5}}

IssueRates == {Number(-1), Number(0), Norm(1, 2), Number(1), Norm(6, 5), Number(2)}

MeetingHours == {Number(h) : h \in {0, 2, 6, 15, 20, 30, 35}}

ReviewHours == {Number(h) : h \in {1, 4, 24, 44, 72, 224, 424}}

\* the baseline with one setting changed, and a few mixed scenarios
Configs ==
  {[BaselineConfig EXCEPT !.developerCountChange = d] : d \in DevChanges}
    \cup {[BaselineConfig EXCEPT !.incomingIssueRate = r] : r \in IssueRates}
    \cup {[BaselineConfig EXCEPT !.weeklyMeetingHours = h] : h \in MeetingHours}
    \cup {[BaselineConfig EXCEPT !.codeReviewAvgHours = h] : h \in ReviewHours}
    \cup {[developerCountChange |-> Number(-1), incomingIssueRate |-> Norm(6, 5),
           weeklyMeetingHours |-> Number(15), codeReviewAvgHours |-> Number(44)],
          [developerCountChange |-> Number(2), incomingIssueRate |-> Norm(1, 2),
           weeklyMeetingHours |-> Number(2), codeReviewAvgHours |-> Number(4)]}

\* the scenarios every history is forecast under
CoreConfigs ==
  {c \in Configs :
     \/ c = BaselineConfig
     \/ c.incomingIssueRate = Number(2)
     \/ c.developerCountChange = Number(-7)
     \/ c.weeklyMeetingHours \in {Number(2), Number(15)}}

\* the histories forecast under every scenario
CoreSeries == {StepSeries(10, 10, 12), StepSeries(0, 2, 12),
               StepSeries(2, 0, 12), LineSeries(3, 7, 12)}

CoreHistories == {MonthlyStats(cs, rs) : cs \in CoreSeries, rs \in CoreSeries}

\* the (history, config) arguments of the modelled generateForecast calls
ForecastInputs ==
  (Histories \X CoreConfigs) \cup (CoreHistories \X Configs)

RegressionLengths == {0, 1, 2, 12}

\* series given to calculateRegression directly: lines and steps
RegressionInputs ==
  UNION {{LineSeries(a, c, n) : a \in -MaxSlope..MaxSlope,
                                c \in -MaxIntercept..MaxIntercept}
           \cup {StepSeries(a, b, n) : a \in Levels, b \in Levels}
           : n \in RegressionLengths}

\* ------------------------------------------------------------------------
\* State machine: one pending call, which then returns
\* ------------------------------------------------------------------------

Init ==
  /\ pc = "call"
  /\ calls = <<>>
  /\ repoName = "facebook/react"
  /\ responses = <<>>
  /\ items = <<>>
  /\ dashboard = NoValue
  /\ inflight = NoValue
  /\ frame = NoValue
  /\ ret = NoValue
  /\ \/ /\ op = "generateForecast"
        /\ \E args \in ForecastInputs : history = args[1] /\ config = args[2]
        /\ values = <<>>
     \/ /\ op = "calculateRegression"
        /\ values \in RegressionInputs
        /\ history = <<>>
        /\ config = BaselineConfig

\* generateForecast(history, config) runs to its return statement; the
\* function has no throw and no operation on its arguments that can throw
GenerateForecast ==
  /\ op = "generateForecast"
  /\ pc = "call"
  /\ pc' = "return"
  /\ ret' = generateForecast(history, config)
  /\ frame' = [currentBacklog |-> currentBacklog(history, Len(history)),
               backlogHistory |-> backlogHistory(history),
               createdTrend |-> calculateRegression(createdValues(history)),
               resolvedTrend |-> calculateRegression(resolvedValues(history)),
               devFactor |-> devFactor(config),
               totalEfficiencyMultiplier |-> totalEfficiencyMultiplier(config)]
  /\ UNCHANGED <<op, history, config, values, repoName, responses, items,
            dashboard, inflight>>
  /\ calls' = Append(calls, [history |-> history', config |-> config',
                             ret |-> ret'])

\* calculateRegression(values) runs to its return statement
CalculateRegression ==
  /\ op = "calculateRegression"
  /\ pc = "call"
  /\ pc' = "return"
  /\ ret' = calculateRegression(values)
  /\ UNCHANGED <<op, history, config, values, frame, calls, repoName,
               responses, items, dashboard, inflight>>

Next == GenerateForecast \/ CalculateRegression

Spec == Init /\ [][Next]_vars

\* ------------------------------------------------------------------------
\* Repeated calls of generateForecast from one caller
\* ------------------------------------------------------------------------

\* the most calls one behaviour makes
MaxCalls == 3

RepeatHistories ==
  {MonthlyStats(StepSeries(10, 10, 12), StepSeries(10, 10, 12)),
   MonthlyStats(StepSeries(2, 0, 12), StepSeries(0, 2, 12)),
   MonthlyStats(LineSeries(3, 7, 12), StepSeries(10, 10, 12))}

RepeatConfigs ==
  {BaselineConfig, [BaselineConfig EXCEPT !.incomingIssueRate = Number(2)]}

RepeatInputs == RepeatHistories \X RepeatConfigs

InitCalls ==
  /\ op = "generateForecast"
  /\ pc = "call"
  /\ calls = <<>>
  /\ frame = NoValue
  /\ ret = NoValue
  /\ values = <<>>
  /\ repoName = "facebook/react"
  /\ responses = <<>>
  /\ items = <<>>
  /\ dashboard = NoValue
  /\ inflight = NoValue
  /\ \E args \in RepeatInputs : history = args[1] /\ config = args[2]

\* the caller calls generateForecast again, with any arguments (the effect of
\* Charts re-runs it whenever simConfig or projectData changes)
CallAgain ==
  /\ pc = "return"
  /\ Len(calls) < MaxCalls
  /\ \E args \in RepeatInputs : history' = args[1] /\ config' = args[2]
  /\ pc' = "call"
  /\ ret' = NoValue
  /\ UNCHANGED <<op, values, frame, calls, repoName, responses, items,
            dashboard, inflight>>

NextCalls == GenerateForecast \/ CallAgain

SpecCalls == InitCalls /\ [][NextCalls]_vars

\* ------------------------------------------------------------------------
\* Properties
\* ------------------------------------------------------------------------

ForecastReturned == op = "generateForecast" /\ pc = "return"

RegressionReturned == op = "calculateRegression" /\ pc = "return"

IsDefined(v) == v # Undefined

\* a defined number that is >= 0 (NaN is not)
NonNegative(v) == IsDefined(v) /\ GreaterEq(v, Number(0))

\* C1: for every 12-bucket history of non-negative counts and every scenario
\* with finite settings, each historicalOpen and each projectedOpen of the
\* returned chart is a number >= 0.
C1_ForecastNeverNegative ==
  (ForecastReturned /\ Len(history) = 12) =>
    \A k \in 1..Len(ret) :
      /\ IsDefined(ret[k].historicalOpen) => NonNegative(ret[k].historicalOpen)
      /\ IsDefined(ret[k].projectedOpen) => NonNegative(ret[k].projectedOpen)

\* a forecast returned for a history that resolves 10 and creates 0 in every
\* month: the running sum is -120 and the chart still shows 0
C1_Witness ==
  /\ ForecastReturned
  /\ Len(history) = 12
  /\ \A k \in 1..12 : history[k].created = Number(0) /\ history[k].resolved = Number(10)
  /\ currentBacklog(history, 12) = Number(-120)
  /\ ret[12].historicalOpen = Number(0)
  /\ ret[15].projectedOpen = Number(0)

\* the backlog of the claim C2: B_0 = 0, B_k = max(0, B_(k-1) + created_k -
\* resolved_k), the clamped value being what the next net change is added to
RECURSIVE ClampedBacklog(_, _)
ClampedBacklog(hist, k) ==
  IF k = 0 THEN Number(0)
  ELSE MathMax(Number(0),
               Add(ClampedBacklog(hist, k - 1),
                   Sub(hist[k].created, hist[k].resolved)))

\* C2: for every 12-bucket history, historicalOpen of bucket k is the
\* clamped running backlog B_k (the floor is applied to the running value
\* itself, and the floored value is carried to the next bucket).
C2_ClampedBacklogCarried ==
  (ForecastReturned /\ Len(history) = 12) =>
    \A k \in 1..12 : ret[k].historicalOpen = ClampedBacklog(history, k)

\* the line of the claim C3's recurrence at future index x, from the trends
\* and the multiplier of the call
C3_Step(prev, x) ==
  MathMax(Number(0),
          Add(prev,
              Sub(MathMax(Number(0),
                          Mul(TrendAt(frame.createdTrend, x),
                              config.incomingIssueRate)),
                  MathMax(Number(0),
                          Mul(TrendAt(frame.resolvedTrend, x),
                              frame.totalEfficiencyMultiplier)))))

\* C3: for a 12-bucket history the projection starts at the last
\* historicalOpen and, for the future indices 12, 13, 14 in order, becomes
\* max(0, previous + max(0, createdTrend(i) * incomingIssueRate)
\*                 - max(0, resolvedTrend(i) * efficiencyMultiplier));
\* each projectedOpen is the rounding of the running value, and the unrounded
\* running value is carried to the next step.
C3_ProjectionRecurrence ==
  (ForecastReturned /\ Len(history) = 12) =>
    LET p0 == ret[12].historicalOpen
        p1 == C3_Step(p0, 12)
        p2 == C3_Step(p1, 13)
        p3 == C3_Step(p2, 14)
    IN /\ ret[13].projectedOpen = MathRound(p1)
       /\ ret[14].projectedOpen = MathRound(p2)
       /\ ret[15].projectedOpen = MathRound(p3)

\* a projection whose running value is fractional at the first step and
\* whose rounded and unrounded carries lead to different third points
C3_Witness ==
  /\ ForecastReturned
  /\ Len(history) = 12
  /\ projectedBacklog(history, config, 1).den > 1
  /\ LET r1 == MathRound(C3_Step(ret[12].historicalOpen, 12))
         r2 == MathRound(C3_Step(r1, 13))
         r3 == MathRound(C3_Step(r2, 14))
     IN r3 # ret[15].projectedOpen

\* C4: for a 12-bucket history the chart has exactly 15 points: the 12
\* historical points in input order under the input bucket names, then
\* 'Next M1', 'Next M2', 'Next M3' in that order.
C4_FifteenPointsInOrder ==
  (ForecastReturned /\ Len(history) = 12) =>
    /\ Len(ret) = 15
    /\ \A k \in 1..12 :
         /\ ret[k].name = history[k].name
         /\ IsDefined(ret[k].historicalOpen)
    /\ ret[13].name = "Next M1"
    /\ ret[14].name = "Next M2"
    /\ ret[15].name = "Next M3"
    /\ \A k \in 13..15 : IsDefined(ret[k].projectedOpen)

\* a returned 15-point chart running from 'Jan' to 'Next M3'
C4_Witness ==
  /\ ForecastReturned
  /\ Len(history) = 12
  /\ Len(ret) = 15
  /\ ret[1].name = "Jan"
  /\ ret[12].name = "Dec"
  /\ ret[15].name = "Next M3"

\* C5: every returned point has exactly one of historicalOpen and
\* projectedOpen defined: the points of the history have historicalOpen only,
\* the projected points projectedOpen only.
C5_ExactlyOneFieldDefined ==
  ForecastReturned =>
    \A k \in 1..Len(ret) :
      IF k <= Len(history)
      THEN IsDefined(ret[k].historicalOpen) /\ ~IsDefined(ret[k].projectedOpen)
      ELSE IsDefined(ret[k].projectedOpen) /\ ~IsDefined(ret[k].historicalOpen)

\* a returned chart holding a historical and a projected point
C5_Witness ==
  /\ ForecastReturned
  /\ Len(history) = 12
  /\ IsDefined(ret[12].historicalOpen) /\ ~IsDefined(ret[12].projectedOpen)
  /\ IsDefined(ret[13].projectedOpen) /\ ~IsDefined(ret[13].historicalOpen)

\* C6: a call with a history whose length is not 12 fails with an error and
\* never returns a forecast.
C6_WrongSizeFailsFast ==
  (op = "generateForecast" /\ Len(history) # 12) => pc # "return"

\* C7: calculateRegression on a single-value series returns the flat line
\* m = 0, b = y0, and a single-bucket history puts no NaN into a
\* projectedOpen.
C7_SinglePointFlatLine ==
  /\ (RegressionReturned /\ Len(values) = 1) =>
       ret = [m |-> Number(0), b |-> values[1]]
  /\ (ForecastReturned /\ Len(history) = 1) =>
       \A k \in 1..Len(ret) :
         IsDefined(ret[k].projectedOpen) => ~IsNaN(ret[k].projectedOpen)

\* C8: calculateRegression on the empty series returns m = 0 and b = 0, and
\* returns rather than throws; so do the two fits of an empty history.
C8_EmptySeriesZeroLine ==
  /\ (op = "calculateRegression" /\ pc # "call" /\ Len(values) = 0) =>
       pc = "return" /\ ret = [m |-> Number(0), b |-> Number(0)]
  /\ (ForecastReturned /\ Len(history) = 0) =>
       /\ frame.createdTrend = [m |-> Number(0), b |-> Number(0)]
       /\ frame.resolvedTrend = [m |-> Number(0), b |-> Number(0)]

\* calculateRegression has returned for the empty series
C8_Witness ==
  RegressionReturned /\ values = <<>> /\ IsFinite(ret.m) /\ IsFinite(ret.b)

\* C9: for every series y_i = a * i + c over the indices 0..11 with integer
\* a and c, calculateRegression returns the slope a and the intercept c.
C9_LinearSeriesRecovered ==
  (RegressionReturned /\ Len(values) = 12) =>
    \A a \in -MaxSlope..MaxSlope :
      \A c \in -MaxIntercept..MaxIntercept :
        (\A k \in 1..12 : values[k] = Number(a * (k - 1) + c)) =>
          ret = [m |-> Number(a), b |-> Number(c)]

\* the fit of y_i = 3i + 7 over 0..11 has returned m = 3, b = 7
C9_Witness ==
  /\ RegressionReturned
  /\ Len(values) = 12
  /\ \A k \in 1..12 : values[k] = Number(3 * (k - 1) + 7)
  /\ ret = [m |-> Number(3), b |-> Number(7)]

\* C10: with weeklyMeetingHours = 6, codeReviewAvgHours = 24 and
\* developerCountChange = 0 the efficiency multiplier of the call is exactly
\* 1, and each predicted resolution is the fitted resolution trend at its
\* future index, floored at 0.
C10_BaselineMultiplierIsOne ==
  (/\ ForecastReturned
   /\ config.weeklyMeetingHours = Number(6)
   /\ config.codeReviewAvgHours = Number(24)
   /\ config.developerCountChange = Number(0)) =>
    /\ frame.totalEfficiencyMultiplier = Number(1)
    /\ \A i \in 0..2 :
         predictedResolved(history, config, i) =
           MathMax(Number(0), TrendAt(frame.resolvedTrend, Len(history) + i))

\* a forecast under the three baseline settings (and a doubled issue rate)
\* of a history whose resolution trend is not zero
C10_Witness ==
  /\ ForecastReturned
  /\ Len(history) = 12
  /\ config.weeklyMeetingHours = Number(6)
  /\ config.codeReviewAvgHours = Number(24)
  /\ config.developerCountChange = Number(0)
  /\ config.incomingIssueRate = Number(2)
  /\ frame.resolvedTrend.m # Number(0)
  /\ frame.totalEfficiencyMultiplier = Number(1)

\* C11: with codeReviewAvgHours = 24 and developerCountChange = 0 the
\* multiplier is below 1 at weeklyMeetingHours = 15 and above 1 at 2; it does
\* not increase when weeklyMeetingHours does, and it is 10/34 for every
\* weeklyMeetingHours >= 30.
C11_MeetingDrag ==
  (/\ ForecastReturned
   /\ config.codeReviewAvgHours = Number(24)
   /\ config.developerCountChange = Number(0)) =>
    LET mult == frame.totalEfficiencyMultiplier
        hours == config.weeklyMeetingHours
    IN /\ hours = Number(15) => Less(mult, Number(1))
       /\ hours = Number(2) => Less(Number(1), mult)
       /\ GreaterEq(hours, Number(30)) => mult = Norm(10, 34)
       /\ \A more \in MeetingHours :
            GreaterEq(more, hours) =>
              GreaterEq(mult,
                        totalEfficiencyMultiplier(
                          [config EXCEPT !.weeklyMeetingHours = more]))

\* a forecast under 35 meeting hours, beyond the point where the 10 hour
\* minimum takes over
C11_Witness ==
  /\ ForecastReturned
  /\ config.codeReviewAvgHours = Number(24)
  /\ config.developerCountChange = Number(0)
  /\ config.weeklyMeetingHours = Number(35)
  /\ frame.totalEfficiencyMultiplier = Norm(5, 17)

\* a scenario the data model allows: a finite headcount change,
\* weeklyMeetingHours >= 0 and codeReviewAvgHours > 0
AllowedConfig(cfg) ==
  /\ IsFinite(cfg.developerCountChange)
  /\ cfg.developerCountChange.den = 1
  /\ GreaterEq(cfg.weeklyMeetingHours, Number(0))
  /\ Less(Number(0), cfg.codeReviewAvgHours)

\* C12: for every allowed scenario the headcount factor is >= 0.1 and the
\* efficiency multiplier is strictly positive.
C12_MultiplierPositive ==
  (ForecastReturned /\ AllowedConfig(config)) =>
    /\ GreaterEq(frame.devFactor, Norm(1, 10))
    /\ Less(Number(0), frame.totalEfficiencyMultiplier)

\* C13: for a flat 12-bucket history (created = resolved = c in every
\* bucket) under the baseline scenario, the three projectedOpen values equal
\* the last historicalOpen.
C13_FlatHistoryStaysFlat ==
  (/\ ForecastReturned
   /\ Len(history) = 12
   /\ config = BaselineConfig
   /\ \E c \in Levels :
        \A k \in 1..12 :
          history[k].created = Number(c) /\ history[k].resolved = Number(c)) =>
    \A j \in 13..15 : ret[j].projectedOpen = ret[12].historicalOpen

\* the forecast of the flat history of 10 under the baseline has returned
C13_Witness ==
  /\ ForecastReturned
  /\ Len(history) = 12
  /\ config = BaselineConfig
  /\ \A k \in 1..12 :
       history[k].created = Number(10) /\ history[k].resolved = Number(10)
  /\ predictedResolved(history, config, 2) = Number(10)
  /\ ret[15].projectedOpen = ret[12].historicalOpen

\* the flat history of 10 forecast under the baseline with
\* incomingIssueRate = 2
FlatTenDoubleRate ==
  /\ ForecastReturned
  /\ Len(history) = 12
  /\ config = [BaselineConfig EXCEPT !.incomingIssueRate = Number(2)]
  /\ \A k \in 1..12 :
       history[k].created = Number(10) /\ history[k].resolved = Number(10)

\* C14: for the flat history of 10 under the baseline with
\* incomingIssueRate = 2 the projection strictly increases, Next M1 < Next M2
\* < Next M3, and Next M1 exceeds the last historicalOpen.
C14_DoubleRateGrows ==
  FlatTenDoubleRate =>
    /\ Less(ret[12].historicalOpen, ret[13].projectedOpen)
    /\ Less(ret[13].projectedOpen, ret[14].projectedOpen)
    /\ Less(ret[14].projectedOpen, ret[15].projectedOpen)

\* that forecast has returned: 10, 20, 30 after a last historicalOpen of 0
C14_Witness ==
  /\ FlatTenDoubleRate
  /\ ret[12].historicalOpen = Number(0)
  /\ ret[13].projectedOpen = Number(10)
  /\ ret[15].projectedOpen = Number(30)

\* any two calls made with equal arguments returned equal charts
SameArgumentsSameResult ==
  \A i \in 1..Len(calls) :
    \A j \in 1..Len(calls) :
      (calls[i].history = calls[j].history /\ calls[i].config = calls[j].config)
        => calls[i].ret = calls[j].ret

TicksPerDay == 2

\* days of a year before the first day of each month, January first
DaysBeforeMonth == <<0, 31, 59, 90, 120, 151, 181, 212, 243, 273, 304, 334, 365>>

\* new Date(year, monthIndex, day) plus tick ticks, as written by toISOString
DateOf(year, monthIndex, day, tick) ==
  [time |-> Number(TicksPerDay * (365 * year + DaysBeforeMonth[monthIndex + 1]
                                   + day - 1) + tick)]

\* new Date(s).getTime(), in ticks
getTime(date) == date.time

\* new Date(s).getMonth(): 0 for January .. 11 for December
getMonth(date) ==
  LET dayOfYear == (getTime(date).num \div TicksPerDay) % 365
  IN CHOOSE m \in 0..11 :
       DaysBeforeMonth[m + 1] <= dayOfYear /\ dayOfYear < DaysBeforeMonth[m + 2]

\* parseFloat(x.toFixed(1)): the nearest multiple of 1/10, the larger one of
\* two equally near
toFixed1(x) ==
  IF ~IsFinite(x) THEN x
  ELSE IF Less(x, Number(0))
  THEN Neg(Div(MathRound(Mul(Neg(x), Number(10))), Number(10)))
  ELSE Div(MathRound(Mul(x, Number(10))), Number(10))

\* the property names every object literal inherits from Object.prototype:
\* reading one of them from {} gives a function or an object, never undefined
ObjectPrototypeKeys ==
  {"constructor", "toString", "toLocaleString", "valueOf", "hasOwnProperty",
   "isPrototypeOf", "propertyIsEnumerable", "__proto__"}

\* the value of a property name that is an array index (the canonical decimal
\* string of an integer), -1 for every other name
ArrayIndexOf(name) ==
  CASE name = "0" -> 0
    [] name = "7" -> 7
    [] name = "10" -> 10
    [] OTHER -> -1

RECURSIVE InsertByKey(_, _)
\* e placed behind every element of sorted whose key is not above e's
InsertByKey(sorted, e) ==
  IF sorted = <<>> THEN <<e>>
  ELSE IF sorted[1].key <= e.key
  THEN <<sorted[1]>> \o InsertByKey(Tail(sorted), e)
  ELSE <<e>> \o sorted

RECURSIVE SortByKey(_)
\* Array.prototype.sort with a comparator that subtracts keys: ascending by
\* key, elements of equal key in their order in s (the sort is stable)
SortByKey(s) ==
  IF s = <<>> THEN <<>>
  ELSE InsertByKey(SortByKey(SubSeq(s, 1, Len(s) - 1)), s[Len(s)])

\* the elements of s in ascending order of their keys, keys[k] being the
\* key of s[k]
SortedBy(s, keys) ==
  LET tagged == [k \in 1..Len(s) |-> [key |-> keys[k], value |-> s[k]]]
      sorted == SortByKey(tagged)
  IN [k \in 1..Len(s) |-> sorted[k].value]

\* Object.keys of an object whose own properties were created in the order of
\* names: the array indices in ascending numeric order, then the other names
\* in creation order
ObjectKeys(names) ==
  LET indices == SelectSeq(names, LAMBDA n : ArrayIndexOf(n) >= 0)
  IN SortedBy(indices, [k \in 1..Len(indices) |-> ArrayIndexOf(indices[k])])
       \o SelectSeq(names, LAMBDA n : ArrayIndexOf(n) < 0)

\* ------------------------------------------------------------------------
\* The statistics both data sources compute over their issues
\* ------------------------------------------------------------------------

\* An Issue is a record of id, title, status, priority, category, labels,
\* createdAt, closedAt and assignee; closedAt and assignee are Undefined when
\* absent, and an assignee that is present is [login |-> name].  url is
\* written once and only rendered: it is left out.
IssueStatus == [OPEN |-> "Open", CLOSED |-> "Closed", IN_PROGRESS |-> "In Progress"]

\* i.status === IssueStatus.CLOSED && i.closedAt
isResolved(i) == i.status = IssueStatus.CLOSED /\ i.closedAt # Undefined

\* end - start
resolutionTime(i) == Sub(getTime(i.closedAt), getTime(i.createdAt))

\* (end - start) / (1000 * 60 * 60 * 24)
days(i) == Div(resolutionTime(i), Number(TicksPerDay))

\* labelMap is the sequence of its own properties in creation order, each
\* with its name and its value {count, totalDays, closedCount}
HasOwn(labelMap, label) == \E k \in 1..Len(labelMap) : labelMap[k].name = label

\* the body of i.labels.forEach: labelMap[label] is created when reading it
\* gives a falsy value, then counted.  An inherited property is truthy, so no
\* own property is created for its name and the increments land on the
\* inherited value, outside labelMap.
countLabel(labelMap, i, label) ==
  LET created ==
        IF ~(HasOwn(labelMap, label) \/ label \in ObjectPrototypeKeys)
        THEN Append(labelMap, [name |-> label, count |-> 0,
                               totalDays |-> Number(0), closedCount |-> 0])
        ELSE labelMap
      counted(d) ==
        IF isResolved(i)
        THEN [d EXCEPT !.count = @ + 1,
                       !.totalDays = Add(@, days(i)),
                       !.closedCount = @ + 1]
        ELSE [d EXCEPT !.count = @ + 1]
  IN [k \in 1..Len(created) |->
        IF created[k].name = label THEN counted(created[k]) ELSE created[k]]

RECURSIVE countLabels(_, _, _)
\* i.labels.forEach over the first n labels of i
countLabels(labelMap, i, n) ==
  IF n = 0 THEN labelMap
  ELSE countLabel(countLabels(labelMap, i, n - 1), i, i.labels[n])

RECURSIVE labelMapOf(_, _)
\* labelMap after issues.forEach over the first n issues
labelMapOf(issues, n) ==
  IF n = 0 THEN <<>>
  ELSE countLabels(labelMapOf(issues, n - 1), issues[n], Len(issues[n].labels))

labelStatsUnsorted_overCount(labelMap) ==
  LET names == ObjectKeys([k \in 1..Len(labelMap) |-> labelMap[k].name])
      d(name) == labelMap[CHOOSE k \in 1..Len(labelMap) : labelMap[k].name = name]
  IN [k \in 1..Len(names) |->
        [name |-> names[k],
         count |-> d(names[k]).count,
         avgResolutionDays |->
           IF d(names[k]).closedCount > 0
           THEN toFixed1(Div(d(names[k]).totalDays, Number(d(names[k]).count)))
           ELSE Number(0)]]

\* Object.keys(labelMap).map(...), before the sort
labelStatsUnsorted(labelMap) ==
  LET names == ObjectKeys([k \in 1..Len(labelMap) |-> labelMap[k].name])
      d(name) == labelMap[CHOOSE k \in 1..Len(labelMap) : labelMap[k].name = name]
  IN [k \in 1..Len(names) |->
        [name |-> names[k],
         count |-> d(names[k]).count,
         avgResolutionDays |->
           IF d(names[k]).closedCount > 0
           THEN toFixed1(Div(d(names[k]).totalDays,
                             Number(d(names[k]).closedCount)))
           ELSE Number(0)]]

\* .sort((a, b) => b.count - a.count)
labelStatsOf(labelMap) ==
  LET stats == labelStatsUnsorted(labelMap)
  IN SortedBy(stats, [k \in 1..Len(stats) |-> 0 - stats[k].count])

RECURSIVE catMapOf(_, _)
\* catMap after issues.forEach over the first n issues: its own properties in
\* creation order, each with its name and its value
catMapOf(issues, n) ==
  IF n = 0 THEN <<>>
  ELSE LET catMap == catMapOf(issues, n - 1)
           category == issues[n].category
       IN IF \E k \in 1..Len(catMap) : catMap[k].name = category
          THEN [k \in 1..Len(catMap) |->
                  IF catMap[k].name = category
                  THEN [catMap[k] EXCEPT !.value = @ + 1] ELSE catMap[k]]
          ELSE Append(catMap, [name |-> category, value |-> 1])

\* Object.keys(catMap).map(key => ({ name: key, value: catMap[key] }))
categoryDistributionOf(catMap) ==
  LET names == ObjectKeys([k \in 1..Len(catMap) |-> catMap[k].name])
  IN [k \in 1..Len(names) |->
        catMap[CHOOSE j \in 1..Len(catMap) : catMap[j].name = names[k]]]

\* issues.sort((a, b) => getTime(b.createdAt) - getTime(a.createdAt))
newestFirst(issues) ==
  SortedBy(issues, [k \in 1..Len(issues) |-> 0 - getTime(issues[k].createdAt).num])

RECURSIVE totalResolutionTime(_, _)
\* totalResolutionTime after issues.forEach over the first n issues
totalResolutionTime(issues, n) ==
  IF n = 0 THEN Number(0)
  ELSE IF isResolved(issues[n])
  THEN Add(totalResolutionTime(issues, n - 1), resolutionTime(issues[n]))
  ELSE totalResolutionTime(issues, n - 1)

\* closedCount after issues.forEach
closedCount(issues) == Len(SelectSeq(issues, isResolved))

\* ------------------------------------------------------------------------
\* generateMockData: the statistics block
\* ------------------------------------------------------------------------

generateMockData_total(issues) == Len(issues)

generateMockData_open_onlyOpen(issues) ==
  Len(SelectSeq(issues, LAMBDA i : i.status = IssueStatus.OPEN))

generateMockData_open(issues) ==
  Len(SelectSeq(issues, LAMBDA i : i.status = IssueStatus.OPEN
                             \/ i.status = IssueStatus.IN_PROGRESS))

generateMockData_closed(issues) ==
  Len(SelectSeq(issues, LAMBDA i : i.status = IssueStatus.CLOSED))

generateMockData_avgResolutionDays_noGuard(issues) ==
  MathRound(Div(Div(totalResolutionTime(issues, Len(issues)),
                    Number(closedCount(issues))),
                Number(TicksPerDay)))

generateMockData_avgResolutionDays(issues) ==
  IF closedCount(issues) > 0
  THEN MathRound(Div(Div(totalResolutionTime(issues, Len(issues)),
                         Number(closedCount(issues))),
                     Number(TicksPerDay)))
  ELSE Number(0)

generateMockData_labelStats(issues) ==
  labelStatsOf(labelMapOf(issues, Len(issues)))

RECURSIVE generateMockData_monthlyTrendsUpTo(_, _)
\* monthlyTrends after issues.forEach over the first n issues
generateMockData_monthlyTrendsUpTo(issues, n) ==
  IF n = 0
  THEN [m \in 1..Len(months) |-> [name |-> months[m], created |-> 0, resolved |-> 0]]
  ELSE LET i == issues[n]
           cMonth == getMonth(i.createdAt)
           created == [generateMockData_monthlyTrendsUpTo(issues, n - 1)
                         EXCEPT ![cMonth + 1].created = @ + 1]
       IN IF isResolved(i)
          THEN [created EXCEPT ![getMonth(i.closedAt) + 1].resolved = @ + 1]
          ELSE created

generateMockData_monthlyTrends_createdMonth(issues) ==
  [m \in 1..Len(months) |->
     [name |-> months[m],
      created |-> Len(SelectSeq(issues, LAMBDA i : getMonth(i.createdAt) = Index(m))),
      resolved |-> Len(SelectSeq(issues, LAMBDA i : isResolved(i)
                                     /\ getMonth(i.createdAt) = Index(m)))]]

generateMockData_monthlyTrends(issues) ==
  generateMockData_monthlyTrendsUpTo(issues, Len(issues))

generateMockData_categoryDistribution(issues) ==
  categoryDistributionOf(catMapOf(issues, Len(issues)))

\* the return statement, for the issues the generation loop has pushed
generateMockData(name, issues) ==
  [repoName |-> name,
   issues |-> newestFirst(issues),
   stats |-> [total |-> generateMockData_total(issues),
              open |-> generateMockData_open(issues),
              closed |-> generateMockData_closed(issues),
              avgResolutionDays |-> generateMockData_avgResolutionDays(issues),
              monthlyTrends |-> generateMockData_monthlyTrends(issues),
              categoryDistribution |-> generateMockData_categoryDistribution(issues),
              labelStats |-> generateMockData_labelStats(issues)]]

\* ------------------------------------------------------------------------
\* fetchRealGithubData
\* ------------------------------------------------------------------------

\* A raw record of the GitHub API has number, state, labels (label objects
\* with a name), created_at, closed_at (a date or Null), assignee (an object
\* with a login, or Null) and pull_request (an object, or Undefined when the
\* record is an issue).
Null == [null |-> TRUE]

\* the lower-case letter of an upper-case letter, other characters as they
\* are; a character is a string of length 1
LowerCaseLetter(c) ==
  LET upper == <<"A", "B", "C", "D", "E", "F", "G", "H", "I", "J", "K", "L", "M",
                 "N", "O", "P", "Q", "R", "S", "T", "U", "V", "W", "X", "Y", "Z">>
      lower == <<"a", "b", "c", "d", "e", "f", "g", "h", "i", "j", "k", "l", "m",
                 "n", "o", "p", "q", "r", "s", "t", "u", "v", "w", "x", "y", "z">>
  IN IF \E k \in 1..26 : upper[k] = c
     THEN lower[CHOOSE k \in 1..26 : upper[k] = c]
     ELSE c

RECURSIVE toLowerCase(_)
\* n.toLowerCase(), character by character
toLowerCase(n) ==
  IF n = "" THEN ""
  ELSE LowerCaseLetter(SubSeq(n, 1, 1)) \o toLowerCase(SubSeq(n, 2, Len(n)))

\* n.includes(word): word is a substring of n
includes(n, word) ==
  \E k \in 1..(Len(n) - Len(word) + 1) : SubSeq(n, k, k + Len(word) - 1) = word

\* labelNames.some(n => n.includes(w1) || n.includes(w2) || ...)
someIncludes(labelNames, words) ==
  \E k \in 1..Len(labelNames) : \E w \in words : includes(labelNames[k], w)

IssuePriority ==
  [LOW |-> "Low", MEDIUM |-> "Medium", HIGH |-> "High", CRITICAL |-> "Critical"]

determinePriority(labels) ==
  LET labelNames == [k \in 1..Len(labels) |-> toLowerCase(labels[k].name)]
  IN IF someIncludes(labelNames, {"critical", "p0", "urgent"})
     THEN IssuePriority.CRITICAL
     ELSE IF someIncludes(labelNames, {"high", "p1"}) THEN IssuePriority.HIGH
     ELSE IF someIncludes(labelNames, {"medium", "p2"})
     THEN IssuePriority.MEDIUM
     ELSE IssuePriority.LOW

determineCategory(labels) ==
  LET labelNames == [k \in 1..Len(labels) |-> toLowerCase(labels[k].name)]
  IN IF someIncludes(labelNames, {"bug", "fix", "error"}) THEN "Bug"
     ELSE IF someIncludes(labelNames, {"feat", "enhancement"}) THEN "Feature"
     ELSE IF someIncludes(labelNames, {"doc"}) THEN "Documentation"
     ELSE IF someIncludes(labelNames, {"perf"}) THEN "Performance"
     ELSE IF someIncludes(labelNames, {"refactor"}) THEN "Refactor"
     ELSE "Other"

maxPages == 3

RECURSIVE fetchPages(_, _, _)
\* the pagination loop from page on, where responses[p] is the answer the
\* server gives to the request for page p: the records fetched and the
\* number of requests made, or the error thrown
fetchPages(pages, page, allIssues) ==
  IF page > maxPages
  THEN [allIssues |-> allIssues, requested |-> page - 1]
  ELSE LET response == pages[page]
       IN IF ~response.ok
          THEN [error |-> IF response.status = 404 THEN "Repo not found"
                          ELSE IF response.status = 403
                          THEN "API Rate Limit Exceeded. Please provide a Token."
                          ELSE "GitHub API Error",
                requested |-> page]
          ELSE IF Len(response.data) = 0
          THEN [allIssues |-> allIssues, requested |-> page]
          ELSE fetchPages(pages, page + 1, allIssues \o response.data)

\* allIssues.filter(item => !item.pull_request).map(...)
mappedIssues(allIssues) ==
  LET issues == SelectSeq(allIssues, LAMBDA item : item.pull_request = Undefined)
  IN [k \in 1..Len(issues) |->
        LET item == issues[k]
        IN [id |-> item.number,
            title |-> item.title,
            priority |-> determinePriority(item.labels),
            status |-> IF item.state = "open" THEN IssueStatus.OPEN
                       ELSE IssueStatus.CLOSED,
            category |-> determineCategory(item.labels),
            labels |-> [j \in 1..Len(item.labels) |-> item.labels[j].name],
            createdAt |-> item.created_at,
            closedAt |-> IF item.closed_at = Null THEN Undefined
                         ELSE item.closed_at,
            assignee |-> IF item.assignee = Null THEN Undefined
                         ELSE [login |-> item.assignee.login]]]

fetchRealGithubData_total(issues) == Len(issues)

fetchRealGithubData_open(issues) ==
  Len(SelectSeq(issues, LAMBDA i : i.status = IssueStatus.OPEN))

fetchRealGithubData_closed_withTimestamp(issues) == closedCount(issues)

fetchRealGithubData_closed(issues) ==
  Len(SelectSeq(issues, LAMBDA i : i.status = IssueStatus.CLOSED))

RECURSIVE monthlyData(_, _)
\* monthlyData after mappedIssues.forEach over the first n issues: its
\* properties 0..11 are the elements 1..12
monthlyData(issues, n) ==
  IF n = 0 THEN [m \in 1..12 |-> [created |-> 0, resolved |-> 0]]
  ELSE LET i == issues[n]
           before == monthlyData(issues, n - 1)
           created == IF ~IsNaN(getTime(i.createdAt))
                      THEN [before EXCEPT ![getMonth(i.createdAt) + 1].created = @ + 1]
                      ELSE before
       IN IF isResolved(i)
          THEN [created EXCEPT ![getMonth(i.closedAt) + 1].resolved = @ + 1]
          ELSE created

fetchRealGithubData_avgResolutionDays_noGuard(issues) ==
  MathRound(Div(Div(totalResolutionTime(issues, Len(issues)),
                    Number(closedCount(issues))),
                Number(TicksPerDay)))

fetchRealGithubData_avgResolutionDays(issues) ==
  IF closedCount(issues) > 0
  THEN MathRound(Div(Div(totalResolutionTime(issues, Len(issues)),
                         Number(closedCount(issues))),
                     Number(TicksPerDay)))
  ELSE Number(0)

fetchRealGithubData_monthlyTrends(issues) ==
  [idx \in 1..Len(months) |->
     [name |-> months[idx],
      created |-> monthlyData(issues, Len(issues))[idx].created,
      resolved |-> monthlyData(issues, Len(issues))[idx].resolved]]

fetchRealGithubData_categoryDistribution(issues) ==
  categoryDistributionOf(catMapOf(issues, Len(issues)))

fetchRealGithubData_labelStats(issues) ==
  labelStatsOf(labelMapOf(issues, Len(issues)))

\* the statistics block over the mapped issues
fetchRealGithubData_stats(issues) ==
  [total |-> fetchRealGithubData_total(issues),
   open |-> fetchRealGithubData_open(issues),
   closed |-> fetchRealGithubData_closed(issues),
   avgResolutionDays |-> fetchRealGithubData_avgResolutionDays(issues),
   monthlyTrends |-> fetchRealGithubData_monthlyTrends(issues),
   categoryDistribution |-> fetchRealGithubData_categoryDistribution(issues),
   labelStats |-> fetchRealGithubData_labelStats(issues)]

\* the call as a whole: the ProjectData returned, or the error thrown
fetchRealGithubData(name, pages) ==
  LET fetched == fetchPages(pages, 1, <<>>)
  IN IF "error" \in DOMAIN fetched THEN [error |-> fetched.error]
     ELSE [repoName |-> name,
           issues |-> newestFirst(mappedIssues(fetched.allIssues)),
           stats |-> fetchRealGithubData_stats(mappedIssues(fetched.allIssues))]

\* ------------------------------------------------------------------------
\* Inputs of the two data sources
\* ------------------------------------------------------------------------

\* the most issues one call generates or one page holds; the generation loop
\* of generateMockData runs 150 times, here MaxItems times
MaxItems == 3

\* const now = new Date(): 6 November of year 1
now == DateOf(1, 10, 6, 0)

\* date plus ticks, not beyond now
closeDate(created, ticks) ==
  LET date == [time |-> Add(getTime(created), Number(ticks))]
  IN IF Less(getTime(now), getTime(date)) THEN now ELSE date

\* one round of the generation loop, but for the id and the title, which
\* follow from the round: closedAt is set for a Closed issue only, finalTicks
\* after created and not beyond now; titleCategory is the category drawn for
\* the title
generateIssue(status, priority, titleCategory, labels, category, created, finalTicks, assignee) ==
  [status |-> status, priority |-> priority, titleCategory |-> titleCategory,
   labels |-> labels, category |-> category,
   createdAt |-> created,
   closedAt |-> IF status = IssueStatus.CLOSED
                THEN closeDate(created, finalTicks) ELSE Undefined,
   assignee |-> assignee]

\* What the rounds of the generation loop can push: a status, one to three
\* distinct labels of tagPool, a category, a creation date within the last
\* year, a resolution time of half a day or more, and an assignee or none.
MockShapes ==
  {generateIssue(IssueStatus.OPEN, IssuePriority.CRITICAL, "Bug",
                 <<"UI">>, "Bug",
                 DateOf(0, 10, 20, 0), 3, [login |-> "dev_1"]),
   generateIssue(IssueStatus.IN_PROGRESS, IssuePriority.LOW, "Bug",
                 <<"API", "UI">>, "Feature",
                 DateOf(1, 0, 10, 1), 8, Undefined),
   generateIssue(IssueStatus.CLOSED, IssuePriority.HIGH, "Feature",
                 <<"UI", "Auth">>, "Bug",
                 DateOf(1, 0, 31, 1), 1, [login |-> "dev_1"]),
   generateIssue(IssueStatus.CLOSED, IssuePriority.CRITICAL, "Documentation",
                 <<"Auth">>, "Documentation",
                 DateOf(0, 11, 31, 0), 5, [login |-> "dev_2"]),
   generateIssue(IssueStatus.CLOSED, IssuePriority.MEDIUM, "Refactor",
                 <<"API", "Auth", "UI">>, "Feature",
                 DateOf(1, 10, 3, 0), 9, Undefined),
   generateIssue(IssueStatus.OPEN, IssuePriority.LOW, "Feature",
                 <<"Auth", "API">>, "Feature",
                 DateOf(1, 2, 5, 0), 2, [login |-> "dev_2"]),
   generateIssue(IssueStatus.CLOSED, IssuePriority.CRITICAL, "Performance",
                 <<"API">>, "Bug",
                 DateOf(0, 10, 10, 0), 2, Undefined),
   generateIssue(IssueStatus.IN_PROGRESS, IssuePriority.HIGH, "Bug",
                 <<"Auth">>, "Performance",
                 DateOf(1, 5, 15, 0), 4, [login |-> "dev_1"])}

\* issues.push of round i
pushIssue(i, shape) ==
  [id |-> i,
   title |-> shape.titleCategory \o ": Issue description sample #" \o ToString(i)]
    @@ [f \in (DOMAIN shape) \ {"titleCategory"} |-> shape[f]]

\* the issues after n rounds of the generation loop
MockIssues(n) ==
  {[i \in 1..n |-> pushIssue(i, shape[i])] : shape \in [1..n -> MockShapes]}

\* the label objects of the names
Labels(names) == [k \in 1..Len(names) |-> [name |-> names[k]]]

\* What the API can answer with, but for the number: issues open and closed,
\* with no label or several, among them names that are array indices and a
\* name every object inherits; a closed issue without closed_at and an open
\* one with it, state and closed_at being two fields of the JSON; a pull
\* request.
RawShapes ==
  {[title |-> "Crash on start",
    state |-> "open", labels |-> Labels(<<"bug">>),
    created_at |-> DateOf(0, 0, 10, 0), closed_at |-> Null,
    assignee |-> [login |-> "alice"], pull_request |-> Undefined],
   [title |-> "Wrong total in report",
    state |-> "open", labels |-> Labels(<<"bug", "7">>),
    created_at |-> DateOf(0, 1, 3, 0), closed_at |-> Null,
    assignee |-> Null, pull_request |-> Undefined],
   [title |-> "Add dark mode",
    state |-> "closed", labels |-> Labels(<<"7", "enhancement">>),
    created_at |-> DateOf(0, 0, 31, 1), closed_at |-> DateOf(0, 1, 1, 0),
    assignee |-> [login |-> "alice"], pull_request |-> Undefined],
   [title |-> "Clarify build steps",
    state |-> "closed", labels |-> Labels(<<"constructor">>),
    created_at |-> DateOf(0, 2, 5, 0), closed_at |-> DateOf(0, 2, 8, 1),
    assignee |-> [login |-> "bob"], pull_request |-> Undefined],
   [title |-> "Typo in README",
    state |-> "closed", labels |-> Labels(<<>>),
    created_at |-> DateOf(0, 11, 31, 0), closed_at |-> DateOf(1, 0, 1, 0),
    assignee |-> Null, pull_request |-> Undefined],
   [title |-> "Export to CSV",
    state |-> "closed", labels |-> Labels(<<"enhancement", "bug">>),
    created_at |-> DateOf(1, 0, 10, 0), closed_at |-> DateOf(1, 0, 12, 1),
    assignee |-> [login |-> "bob"], pull_request |-> Undefined],
   [title |-> "Fix crash on start",
    state |-> "closed", labels |-> Labels(<<"bug">>),
    created_at |-> DateOf(1, 3, 1, 0), closed_at |-> DateOf(1, 3, 2, 0),
    assignee |-> Null, pull_request |-> [url |-> "pulls"]],
   [title |-> "Slow startup",
    state |-> "closed", labels |-> Labels(<<"Performance">>),
    created_at |-> DateOf(1, 4, 1, 0), closed_at |-> Null,
    assignee |-> Null, pull_request |-> Undefined],
   [title |-> "Upgrade to 10",
    state |-> "open", labels |-> Labels(<<"10", "7">>),
    created_at |-> DateOf(1, 6, 4, 0), closed_at |-> Null,
    assignee |-> [login |-> "alice"], pull_request |-> Undefined],
   [title |-> "Support plugins",
    state |-> "open", labels |-> Labels(<<"enhancement">>),
    created_at |-> DateOf(1, 7, 9, 0), closed_at |-> DateOf(1, 7, 20, 0),
    assignee |-> [login |-> "bob"], pull_request |-> Undefined]}

\* n records, numbered from first
RawRecords(first, n) ==
  {[k \in 1..n |-> [number |-> first + k - 1] @@ shape[k]] :
     shape \in [1..n -> RawShapes]}

\* a page of records, and a response that is not OK
Ok(data) == [ok |-> TRUE, status |-> 200, data |-> data]

Failed(status) == [ok |-> FALSE, status |-> status, data |-> <<>>]

\* the whole repository on the first page
OnePage ==
  {<<Ok(data), Ok(<<>>), Ok(<<>>)>> :
     data \in UNION {RawRecords(1, n) : n \in 0..MaxItems}}

\* one record a page, with pages that are empty or not OK in every position
ManyPages ==
  LET page(p) == {Ok(data) : data \in RawRecords(p, 1)}
                   \cup {Ok(<<>>), Failed(404), Failed(403), Failed(500)}
  IN page(1) \X page(2) \X page(3)

Responses == OnePage \cup ManyPages

\* ------------------------------------------------------------------------
\* State machine of the data sources: one pending call, which then returns
\* or throws
\* ------------------------------------------------------------------------

RepoNames == {"facebook/react", "vuejs/core"}

InitData ==
  /\ pc = "call"
  /\ items = <<>>
  /\ dashboard = NoValue
  /\ inflight = NoValue
  /\ calls = <<>>
  /\ frame = NoValue
  /\ ret = NoValue
  /\ history = <<>>
  /\ config = BaselineConfig
  /\ values = <<>>
  /\ \/ /\ op = "generateMockData"
        /\ repoName \in RepoNames
        /\ responses = <<>>
     \/ /\ op = "fetchRealGithubData"
        /\ repoName = "facebook/react"
        /\ responses \in Responses

\* generateMockData(repoName) runs to its return statement: the generation
\* loop pushes its issues, the statistics are computed over them in that
\* order, and the issues are returned sorted
GenerateMockData ==
  /\ op = "generateMockData"
  /\ pc = "call"
  /\ pc' = "return"
  /\ \E issues \in MockIssues(MaxItems) :
       /\ frame' = [issues |-> issues]
       /\ ret' = generateMockData(repoName, issues)
  /\ UNCHANGED <<op, history, config, values, calls, repoName, responses, items,
            dashboard, inflight>>

\* fetchRealGithubData(repoName) runs to its return statement or to the
\* throw of its catch block
FetchRealGithubData ==
  /\ op = "fetchRealGithubData"
  /\ pc = "call"
  /\ LET fetched == fetchPages(responses, 1, <<>>)
     IN /\ pc' = IF "error" \in DOMAIN fetched THEN "throw" ELSE "return"
        /\ frame' = IF "error" \in DOMAIN fetched THEN fetched
                    ELSE [allIssues |-> fetched.allIssues,
                          requested |-> fetched.requested,
                          issues |-> mappedIssues(fetched.allIssues)]
  /\ ret' = fetchRealGithubData(repoName, responses)
  /\ UNCHANGED <<op, history, config, values, calls, repoName, responses, items,
            dashboard, inflight>>

NextData == GenerateMockData \/ FetchRealGithubData

SpecData == InitData /\ [][NextData]_vars

\* a call has returned a ProjectData
MockReturned == op = "generateMockData" /\ pc = "return"

GithubReturned == op = "fetchRealGithubData" /\ pc = "return"

DataReturned == MockReturned \/ GithubReturned

\* ------------------------------------------------------------------------
\* Properties of the aggregated statistics
\* ------------------------------------------------------------------------

\* the positions of the returned issues whose status is one of statuses
WithStatus(statuses) ==
  {k \in 1..Len(ret.issues) : ret.issues[k].status \in statuses}

\* C16: for every item collection the aggregated stats satisfy
\* open + closed <= total, and every item is counted in exactly one of the
\* two counts: open counts the items with status Open or In Progress, closed
\* counts the items with status Closed.
C16_OpenClosedPartitionTotal ==
  DataReturned =>
    /\ ret.stats.total = Len(ret.issues)
    /\ ret.stats.open
         = Cardinality(WithStatus({IssueStatus.OPEN, IssueStatus.IN_PROGRESS}))
    /\ ret.stats.closed = Cardinality(WithStatus({IssueStatus.CLOSED}))
    /\ ret.stats.open + ret.stats.closed <= ret.stats.total
    /\ ret.stats.open + ret.stats.closed = ret.stats.total

\* a mock collection with an Open, an In Progress and a Closed issue
C16_Witness ==
  /\ MockReturned
  /\ WithStatus({IssueStatus.OPEN}) # {}
  /\ WithStatus({IssueStatus.IN_PROGRESS}) # {}
  /\ ret.stats.open = 2
  /\ ret.stats.closed = 1

\* the positions of the returned issues that are Closed and have a closedAt
Resolved == {k \in 1..Len(ret.issues) : isResolved(ret.issues[k])}

\* the mean, in days, of closedAt - createdAt over the returned issues at
\* the positions of among
MeanDays(among) ==
  Div(Sum([k \in 1..Len(ret.issues) |->
             IF k \in among THEN days(ret.issues[k]) ELSE Number(0)]),
      Number(Cardinality(among)))

\* C17: for every item collection the global avgResolutionDays is a number
\* >= 0, it is exactly 0 when no item is closed, and otherwise it is the
\* rounded mean over only the items that are Closed and have a closedAt; a
\* collection without such items gives 0, not a division fault.
C17_AverageOverResolvedOnly ==
  DataReturned =>
    /\ IsFinite(ret.stats.avgResolutionDays)
    /\ GreaterEq(ret.stats.avgResolutionDays, Number(0))
    /\ WithStatus({IssueStatus.CLOSED}) = {}
         => ret.stats.avgResolutionDays = Number(0)
    /\ Resolved = {} => ret.stats.avgResolutionDays = Number(0)
    /\ Resolved # {}
         => ret.stats.avgResolutionDays = MathRound(MeanDays(Resolved))

\* a mock collection of Open and In Progress issues only: the average is 0
C17_Witness ==
  /\ MockReturned
  /\ Len(ret.issues) = MaxItems
  /\ WithStatus({IssueStatus.CLOSED}) = {}
  /\ ret.stats.avgResolutionDays = Number(0)

\* the positions of the returned issues that carry label
Carrying(label) ==
  {k \in 1..Len(ret.issues) :
     \E j \in 1..Len(ret.issues[k].labels) : ret.issues[k].labels[j] = label}

\* the labelStats entries named label
StatsNamed(label) ==
  {s \in 1..Len(ret.stats.labelStats) : ret.stats.labelStats[s].name = label}

\* C18: an item carrying k labels adds exactly 1 to the count of each of its
\* k LabelStats and to no other: every label of an item has one LabelStat,
\* whose count is the number of items carrying the label, so the counts sum
\* to the sum over the items of their number of labels; the item is counted
\* once in total.
C18_EachLabelCountedOnce ==
  DataReturned =>
    /\ \A k \in 1..Len(ret.issues) :
         \A j \in 1..Len(ret.issues[k].labels) :
           Cardinality(StatsNamed(ret.issues[k].labels[j])) = 1
    /\ \A s \in 1..Len(ret.stats.labelStats) :
         ret.stats.labelStats[s].count
           = Cardinality(Carrying(ret.stats.labelStats[s].name))
    /\ Sum([s \in 1..Len(ret.stats.labelStats) |->
              Number(ret.stats.labelStats[s].count)])
         = Sum([k \in 1..Len(ret.issues) |->
                  Number(Len(ret.issues[k].labels))])
    /\ ret.stats.total = Len(ret.issues)

RECURSIVE LabelsScanned(_, _)
\* the labels of the first n issues in the order the statistics block scans
\* them: issue by issue in the order before the final sort, label by label
LabelsScanned(issues, n) ==
  IF n = 0 THEN <<>> ELSE LabelsScanned(issues, n - 1) \o issues[n].labels

\* the position at which the scan first meets label
FirstEncounter(label) ==
  LET scanned == LabelsScanned(frame.issues, Len(frame.issues))
  IN CHOOSE p \in 1..Len(scanned) :
       /\ scanned[p] = label
       /\ \A q \in 1..(p - 1) : scanned[q] # label

\* labelStats is in descending order of count
SortedByCountDescending ==
  \A s \in 1..Len(ret.stats.labelStats) :
    \A t \in (s + 1)..Len(ret.stats.labelStats) :
      ret.stats.labelStats[s].count >= ret.stats.labelStats[t].count

\* C19: labelStats is sorted by count in descending order, and labels with
\* equal counts appear in the order in which the scan of the items first met
\* them, for every set of label names.
C19_SortedTiesInEncounterOrder ==
  DataReturned =>
    /\ SortedByCountDescending
    /\ \A s \in 1..Len(ret.stats.labelStats) :
         \A t \in (s + 1)..Len(ret.stats.labelStats) :
           ret.stats.labelStats[s].count = ret.stats.labelStats[t].count
             => FirstEncounter(ret.stats.labelStats[s].name)
                  < FirstEncounter(ret.stats.labelStats[t].name)

\* new Date(s).getFullYear(), counted from year 0 of the model
getFullYear(date) == (getTime(date).num \div TicksPerDay) \div 365

\* the positions of the returned issues created in month m (0 for January)
CreatedIn(m) ==
  {k \in 1..Len(ret.issues) : getMonth(ret.issues[k].createdAt) = m}

\* the positions of the returned issues resolved in month m
ResolvedIn(m) == {k \in Resolved : getMonth(ret.issues[k].closedAt) = m}

\* C20: aggregation yields exactly 12 monthly buckets in Jan..Dec order;
\* bucket m's created is the number of items whose createdAt month is m,
\* whatever the year, and its resolved is the number of closed items whose
\* closedAt month is m, so the created counts sum to the total item count and
\* the resolved counts to the number of closed items with a closedAt.
C20_TwelveMonthlyBuckets ==
  DataReturned =>
    LET monthlyTrends == ret.stats.monthlyTrends
    IN /\ Len(monthlyTrends) = 12
       /\ [m \in 1..12 |-> monthlyTrends[m].name]
            = <<"Jan", "Feb", "Mar", "Apr", "May", "Jun",
                "Jul", "Aug", "Sep", "Oct", "Nov", "Dec">>
       /\ \A m \in 1..12 :
            /\ monthlyTrends[m].created = Cardinality(CreatedIn(m - 1))
            /\ monthlyTrends[m].resolved = Cardinality(ResolvedIn(m - 1))
       /\ Sum([m \in 1..12 |-> Number(monthlyTrends[m].created)])
            = Number(ret.stats.total)
       /\ Sum([m \in 1..12 |-> Number(monthlyTrends[m].resolved)])
            = Number(Cardinality(Resolved))

\* a mock collection with two issues created in November of different years,
\* and one created in January and resolved in February
C20_Witness ==
  /\ MockReturned
  /\ \E j \in CreatedIn(10) : \E k \in CreatedIn(10) :
       getFullYear(ret.issues[j].createdAt) # getFullYear(ret.issues[k].createdAt)
  /\ ret.stats.monthlyTrends[11].created = 2
  /\ CreatedIn(0) \cap ResolvedIn(1) # {}
  /\ ret.stats.monthlyTrends[1].resolved = 0
  /\ ret.stats.monthlyTrends[2].resolved = 1

\* ------------------------------------------------------------------------
\* Properties of the normalized issues
\* ------------------------------------------------------------------------

\* C21: every item the mock generator and the GitHub adapter produce carries
\* closedAt if and only if its status is Closed; no item with status Open or
\* In Progress has a closedAt, for every raw record the adapter receives.
C21_ClosedAtIffClosed ==
  DataReturned =>
    \A k \in 1..Len(ret.issues) :
      (ret.issues[k].closedAt # Undefined)
        <=> (ret.issues[k].status = IssueStatus.CLOSED)

\* the positions of the returned issues that are Closed without a closedAt
ClosedWithoutTimestamp ==
  {k \in WithStatus({IssueStatus.CLOSED}) : ret.issues[k].closedAt = Undefined}

\* C22: aggregating a collection that contains an item with status Closed
\* but no closedAt fails fast with an error: no call returns statistics over
\* such an item, so no item is counted in closed while left out of the
\* resolution averages and the monthly resolved counts.
C22_ClosedWithoutTimestampFailsFast ==
  DataReturned =>
    /\ ClosedWithoutTimestamp = {}
    /\ ret.stats.closed = Cardinality(Resolved)
    /\ ret.stats.closed
         = Sum([m \in 1..12 |-> Number(ret.stats.monthlyTrends[m].resolved)]).num

\* the positions of the returned issues that carry label and are Closed with
\* a closedAt
ResolvedCarrying(label) == Carrying(label) \cap Resolved

\* C23 as stated: for every label, LabelStat.avgResolutionDays is the mean
\* of closedAt - createdAt in days over exactly the closed items that carry
\* the label, and 0 when no closed item carries it.
C23_LabelAverageIsMean ==
  DataReturned =>
    \A s \in 1..Len(ret.stats.labelStats) :
      LET stat == ret.stats.labelStats[s]
      IN stat.avgResolutionDays
           = IF ResolvedCarrying(stat.name) = {} THEN Number(0)
             ELSE MeanDays(ResolvedCarrying(stat.name))

\* x is the multiple of 1/10 nearest to mean, the larger of two equally near
NearestTenth(x, mean) ==
  /\ Mul(x, Number(10)).den = 1
  /\ Less(Sub(mean, Norm(1, 20)), x)
  /\ GreaterEq(Add(mean, Norm(1, 20)), x)

\* C23, amended: for every label, LabelStat.avgResolutionDays is the mean of
\* closedAt - createdAt in days over exactly the items that carry the label
\* and are Closed with a closedAt, rounded to one decimal; open items
\* carrying the label add to count only; it is 0 when no such item exists.
C23_LabelAverageIsRoundedMean ==
  DataReturned =>
    \A s \in 1..Len(ret.stats.labelStats) :
      LET stat == ret.stats.labelStats[s]
      IN IF ResolvedCarrying(stat.name) = {}
         THEN stat.avgResolutionDays = Number(0)
         ELSE NearestTenth(stat.avgResolutionDays,
                           MeanDays(ResolvedCarrying(stat.name)))

\* label UI on an open issue and on two closed ones of 0.5 and 3 days: count
\* 3, mean 1.75, average 1.8
C23_Witness ==
  /\ MockReturned
  /\ \E s \in 1..Len(ret.stats.labelStats) :
       /\ ret.stats.labelStats[s].name = "UI"
       /\ ret.stats.labelStats[s].count = 3
       /\ Cardinality(ResolvedCarrying("UI")) = 2
       /\ MeanDays(ResolvedCarrying("UI")) = Norm(7, 4)
       /\ ret.stats.labelStats[s].avgResolutionDays = Norm(18, 10)

\* ------------------------------------------------------------------------
\* The two statistics blocks over one collection of normalized issues
\* ------------------------------------------------------------------------

\* What a normalized issue can come from: a round of the generation loop, or
\* a record the adapter maps whose first label is an array index, an
\* inherited name or Performance
NormalizedShapes ==
  MockShapes
    \cup {r \in RawShapes :
            /\ r.pull_request = Undefined
            /\ Len(r.labels) > 0
            /\ r.labels[1].name \in {"7", "10", "constructor", "Performance"}}

\* the issue with id i that comes from shape
NormalizedIssue(i, shape) ==
  IF "state" \in DOMAIN shape
  THEN mappedIssues(<<[number |-> i] @@ shape>>)[1]
  ELSE pushIssue(i, shape)

\* the collections of up to MaxItems normalized issues, with ids 1, 2, ...
NormalizedIssues ==
  UNION {{[i \in 1..n |-> NormalizedIssue(i, shape[i])] :
            shape \in [1..n -> NormalizedShapes]} : n \in 0..MaxItems}

InitStats ==
  /\ op = "statistics"
  /\ pc = "call"
  /\ items \in NormalizedIssues
  /\ dashboard = NoValue
  /\ inflight = NoValue
  /\ calls = <<>>
  /\ frame = NoValue
  /\ ret = NoValue
  /\ history = <<>>
  /\ config = BaselineConfig
  /\ values = <<>>
  /\ repoName = "facebook/react"
  /\ responses = <<>>

\* the statistics block of generateMockData runs over items
MockStatistics ==
  /\ op = "statistics"
  /\ pc = "call"
  /\ pc' = "mock"
  /\ ret' = [mock |-> generateMockData(repoName, items).stats]
  /\ UNCHANGED <<op, history, config, values, frame, calls, repoName,
                 responses, items, dashboard, inflight>>

\* the statistics block of fetchRealGithubData runs over the same items
GithubStatistics ==
  /\ op = "statistics"
  /\ pc = "mock"
  /\ pc' = "return"
  /\ ret' = [mock |-> ret.mock, github |-> fetchRealGithubData_stats(items)]
  /\ UNCHANGED <<op, history, config, values, frame, calls, repoName,
                 responses, items, dashboard, inflight>>

NextStats == MockStatistics \/ GithubStatistics

SpecStats == InitStats /\ [][NextStats]_vars

\* both blocks have run
StatisticsReturned == op = "statistics" /\ pc = "return"

\* the statistics of no issue
EmptyStats ==
  [total |-> 0, open |-> 0, closed |-> 0,
   avgResolutionDays |-> Number(0),
   monthlyTrends |->
     [m \in 1..12 |->
        [name |-> <<"Jan", "Feb", "Mar", "Apr", "May", "Jun",
                    "Jul", "Aug", "Sep", "Oct", "Nov", "Dec">>[m],
         created |-> 0, resolved |-> 0]],
   categoryDistribution |-> <<>>,
   labelStats |-> <<>>]

\* C24: aggregating the empty item collection yields total = open = closed
\* = 0, avgResolutionDays = 0, 12 monthly buckets all with created =
\* resolved = 0, an empty categoryDistribution and an empty labelStats list,
\* in both statistics blocks and without an error.
C24_EmptyCollectionAllZero ==
  (StatisticsReturned /\ items = <<>>) =>
    /\ ret.mock = EmptyStats
    /\ ret.github = EmptyStats

\* both blocks have run over the empty collection
C24_Witness ==
  /\ StatisticsReturned
  /\ Len(items) = 0
  /\ ret.mock.total = 0
  /\ ret.github.total = 0

\* the positions of items with status In Progress
InProgress ==
  {k \in 1..Len(items) : items[k].status = IssueStatus.IN_PROGRESS}

RECURSIVE trimStart(_)
trimStart(str) ==
  IF str # "" /\ SubSeq(str, 1, 1) = " " THEN trimStart(SubSeq(str, 2, Len(str)))
  ELSE str

RECURSIVE trimEnd(_)
trimEnd(str) ==
  IF str # "" /\ SubSeq(str, Len(str), Len(str)) = " "
  THEN trimEnd(SubSeq(str, 1, Len(str) - 1))
  ELSE str

\* input.trim()
trim(str) == trimEnd(trimStart(str))

\* str.startsWith(prefix)
startsWith(str, prefix) ==
  Len(str) >= Len(prefix) /\ SubSeq(str, 1, Len(prefix)) = prefix

\* the position of the first "/" of str, Len(str) + 1 when it has none
FirstSlash(str) ==
  IF includes(str, "/")
  THEN CHOOSE k \in 1..Len(str) :
         /\ SubSeq(str, k, k) = "/"
         /\ \A j \in 1..(k - 1) : SubSeq(str, j, j) # "/"
  ELSE Len(str) + 1

RECURSIVE pathParts(_)
\* pathname.split('/').filter(Boolean)
pathParts(pathname) ==
  IF pathname = "" THEN <<>>
  ELSE LET part == SubSeq(pathname, 1, FirstSlash(pathname) - 1)
           rest == pathParts(SubSeq(pathname, FirstSlash(pathname) + 1,
                                    Len(pathname)))
       IN IF part = "" THEN rest ELSE <<part>> \o rest

\* new URL(trimmed) of an http or https URL without port, query or fragment:
\* its hostname and pathname; any other string here makes new URL throw
parseURL(trimmed) ==
  LET scheme == IF startsWith(trimmed, "https://") THEN "https://"
                ELSE IF startsWith(trimmed, "http://") THEN "http://"
                ELSE ""
      rest == SubSeq(trimmed, Len(scheme) + 1, Len(trimmed))
  IN IF scheme = "" \/ rest = "" THEN [thrown |-> TRUE]
     ELSE [hostname |-> toLowerCase(SubSeq(rest, 1, FirstSlash(rest) - 1)),
           pathname |-> SubSeq(rest, FirstSlash(rest), Len(rest))]

parseRepoInput(input) ==
  LET trimmed == trim(input)
      urlObj == parseURL(trimmed)
  IN IF "thrown" \in DOMAIN urlObj THEN trimmed
     ELSE IF urlObj.hostname \in {"github.com", "www.github.com"}
             /\ Len(pathParts(urlObj.pathname)) >= 2
     THEN pathParts(urlObj.pathname)[1] \o "/" \o pathParts(urlObj.pathname)[2]
     ELSE trimmed

\* the state after resetFilters()
resetFilters(d) ==
  [d EXCEPT !.selectedLabel = Null, !.labelAnalysis = Null,
            !.searchTerm = "", !.errorMsg = Null]

\* the state after loadMockData(name), the generation loop of
\* generateMockData having pushed issues
loadMockData(d, name, issues) ==
  resetFilters([d EXCEPT !.isUsingMock = TRUE,
                         !.data = generateMockData(name, issues)])

\* the rows of the issue table
filteredIssues(d) ==
  LET matchesSearch(i) ==
        \/ d.searchTerm = ""
        \/ includes(toLowerCase(i.title), toLowerCase(d.searchTerm))
        \/ \E l \in 1..Len(i.labels) :
             includes(toLowerCase(i.labels[l]), toLowerCase(d.searchTerm))
      matchesLabel(i) ==
        \/ d.selectedLabel = Null
        \/ \E l \in 1..Len(i.labels) : i.labels[l] = d.selectedLabel.name
      isDefaultView == d.searchTerm = "" /\ d.selectedLabel = Null
      matchesPriority(i) ==
        ~isDefaultView \/ i.priority = IssuePriority.CRITICAL
  IN IF d.data = Null THEN <<>>
     ELSE SelectSeq(d.data.issues,
                    LAMBDA i : matchesSearch(i) /\ matchesLabel(i)
                                 /\ matchesPriority(i))

\* the handler runs and pending calls a behaviour is followed for
MaxAnalyses == 2

MaxSearches == 2

\* what the search box and the repository form are typed into
SearchTerms == {"", "ui"}

InputNames == {"  ", "https://github.com/vuejs/core/issues "}

\* the issues the generation loop pushes for the Dashboard
DashboardMock ==
  <<pushIssue(1, generateIssue(IssueStatus.OPEN, IssuePriority.CRITICAL, "Bug",
                               <<"UI">>, "Bug",
                               DateOf(0, 10, 20, 0), 3, [login |-> "dev_1"])),
    pushIssue(2, generateIssue(IssueStatus.CLOSED, IssuePriority.HIGH,
                               "Feature", <<"UI", "Auth">>, "Bug",
                               DateOf(1, 0, 31, 1), 1, [login |-> "dev_1"])),
    pushIssue(3, generateIssue(IssueStatus.CLOSED, IssuePriority.CRITICAL,
                               "Documentation", <<"Auth">>, "Documentation",
                               DateOf(0, 11, 31, 0), 5, [login |-> "dev_2"]))>>

\* what the API answers a search of the Dashboard with: a repository of two
\* issues, or no such repository
DashboardResponses ==
  {<<Ok(<<[number |-> 1, title |-> "Crash on start",
           state |-> "open", labels |-> Labels(<<"bug">>),
           created_at |-> DateOf(0, 0, 10, 0), closed_at |-> Null,
           assignee |-> [login |-> "alice"], pull_request |-> Undefined],
          [number |-> 2, title |-> "Add dark mode",
           state |-> "closed", labels |-> Labels(<<"ui", "enhancement">>),
           created_at |-> DateOf(0, 0, 31, 1),
           closed_at |-> DateOf(0, 1, 1, 0),
           assignee |-> [login |-> "alice"], pull_request |-> Undefined]>>),
     Ok(<<>>), Ok(<<>>)>>,
   <<Failed(404), Ok(<<>>), Ok(<<>>)>>}

\* s.slice(0, end)
sliceTo(s, end) == SubSeq(s, 1, IF end > Len(s) THEN Len(s) ELSE end)

\* s without its k-th element
RemoveAt(s, k) == SubSeq(s, 1, k - 1) \o SubSeq(s, k + 1, Len(s))

InitDashboard ==
  /\ op = "Dashboard"
  /\ pc = "mount"
  /\ dashboard = [repoName |-> "facebook/react", data |-> Null,
                  isEditing |-> FALSE, inputName |-> "",
                  isLoadingData |-> FALSE, isUsingMock |-> TRUE,
                  errorMsg |-> Null, searchTerm |-> "",
                  selectedLabel |-> Null, labelAnalysis |-> Null,
                  analyzingLabel |-> FALSE]
  /\ inflight = [analyses |-> <<>>, searches |-> <<>>,
                 clicks |-> 0, submits |-> 0]
  /\ repoName = "facebook/react"
  /\ responses = <<>>
  /\ items = <<>>
  /\ calls = <<>>
  /\ frame = NoValue
  /\ ret = NoValue
  /\ history = <<>>
  /\ config = BaselineConfig
  /\ values = <<>>

\* what every step of the Dashboard leaves alone
DashboardFrame == UNCHANGED <<op, history, config, values, calls, repoName,
                              responses, items>>

\* the component renders something: data or the loading overlay
Rendered == pc = "idle" /\ (dashboard.data # Null \/ dashboard.isLoadingData)

\* the effect of the first render: loadMockData(repoName)
Mount ==
  /\ pc = "mount"
  /\ pc' = "idle"
  /\ dashboard' = loadMockData(dashboard, dashboard.repoName, DashboardMock)
  /\ UNCHANGED <<inflight, frame, ret>>
  /\ DashboardFrame

\* onChange of the search box
SearchInput ==
  /\ Rendered
  /\ \E value \in SearchTerms :
       dashboard' = IF value # ""
                    THEN [dashboard EXCEPT !.searchTerm = value,
                                           !.selectedLabel = Null,
                                           !.labelAnalysis = Null]
                    ELSE [dashboard EXCEPT !.searchTerm = value]
  /\ UNCHANGED <<pc, inflight, frame, ret>>
  /\ DashboardFrame

\* handleLabelClick(label) up to its await, label being a bar of the chart
HandleLabelClick ==
  /\ Rendered
  /\ dashboard.data # Null
  /\ inflight.clicks < MaxAnalyses
  /\ \E k \in DOMAIN sliceTo(dashboard.data.stats.labelStats, 10) :
       LET label == dashboard.data.stats.labelStats[k]
       IN IF dashboard.selectedLabel = [name |-> label.name]
          THEN /\ dashboard' = [dashboard EXCEPT !.selectedLabel = Null,
                                                 !.labelAnalysis = Null]
               /\ inflight' = [inflight EXCEPT !.clicks = @ + 1]
          ELSE /\ dashboard' = [dashboard EXCEPT
                                  !.selectedLabel = [name |-> label.name],
                                  !.labelAnalysis = Null,
                                  !.analyzingLabel = TRUE,
                                  !.searchTerm = ""]
               /\ inflight' = [inflight EXCEPT
                                 !.clicks = @ + 1,
                                 !.analyses = Append(@, label.name)]
  /\ UNCHANGED <<pc, frame, ret>>
  /\ DashboardFrame

\* a pending analyzeSpecificLabel resolves, with a result or with null, and
\* handleLabelClick runs from its await to its end
AnalysisResolved ==
  /\ pc = "idle"
  /\ \E k \in DOMAIN inflight.analyses :
       \E result \in {Null, [requestedFor |-> inflight.analyses[k]]} :
         /\ dashboard' = [dashboard EXCEPT !.labelAnalysis = result,
                                           !.analyzingLabel = FALSE]
         /\ inflight' = [inflight EXCEPT !.analyses = RemoveAt(@, k)]
  /\ UNCHANGED <<pc, frame, ret>>
  /\ DashboardFrame

\* onClick of a label tag of a row of the issue table
TagClick ==
  /\ Rendered
  /\ \E r \in DOMAIN filteredIssues(dashboard) :
       \E l \in DOMAIN sliceTo(filteredIssues(dashboard)[r].labels, 3) :
         LET label == filteredIssues(dashboard)[r].labels[l]
         IN dashboard' =
              [dashboard EXCEPT !.selectedLabel =
                 IF dashboard.selectedLabel = [name |-> label]
                 THEN Null ELSE [name |-> label]]
  /\ UNCHANGED <<pc, inflight, frame, ret>>
  /\ DashboardFrame

\* onClick of the close button of the analysis panel
ClosePanel ==
  /\ Rendered
  /\ dashboard.data # Null
  /\ dashboard.labelAnalysis # Null
  /\ dashboard' = [dashboard EXCEPT !.selectedLabel = Null,
                                    !.labelAnalysis = Null]
  /\ UNCHANGED <<pc, inflight, frame, ret>>
  /\ DashboardFrame

\* onClick of the button that shows the repository name
EditRepo ==
  /\ Rendered
  /\ ~dashboard.isEditing
  /\ dashboard' = [dashboard EXCEPT !.inputName = dashboard.repoName,
                                    !.isEditing = TRUE]
  /\ UNCHANGED <<pc, inflight, frame, ret>>
  /\ DashboardFrame

\* onClick of the cancel button of the repository form
CancelEdit ==
  /\ Rendered
  /\ dashboard.isEditing
  /\ dashboard' = [dashboard EXCEPT !.isEditing = FALSE]
  /\ UNCHANGED <<pc, inflight, frame, ret>>
  /\ DashboardFrame

\* onChange of the input of the repository form
InputName ==
  /\ Rendered
  /\ dashboard.isEditing
  /\ \E value \in InputNames :
       dashboard' = [dashboard EXCEPT !.inputName = value]
  /\ UNCHANGED <<pc, inflight, frame, ret>>
  /\ DashboardFrame

\* handleSearch up to its await: the repository form is submitted
HandleSearch ==
  /\ Rendered
  /\ dashboard.isEditing
  /\ inflight.submits < MaxSearches
  /\ IF trim(dashboard.inputName) = ""
     THEN /\ dashboard' = dashboard
          /\ inflight' = [inflight EXCEPT !.submits = @ + 1]
     ELSE LET cleanName == parseRepoInput(dashboard.inputName)
          IN /\ dashboard' = [dashboard EXCEPT !.repoName = cleanName,
                                               !.isEditing = FALSE,
                                               !.isLoadingData = TRUE,
                                               !.errorMsg = Null]
             /\ inflight' = [inflight EXCEPT !.submits = @ + 1,
                                             !.searches = Append(@, cleanName)]
  /\ UNCHANGED <<pc, frame, ret>>
  /\ DashboardFrame

\* a pending fetchRealGithubData returns or throws, and handleSearch runs
\* from its await through try or catch and finally; frame keeps the call
\* and ret what it returned or threw.  The words of the message around the
\* error's own are written in English here.
FetchSettled ==
  /\ pc = "idle"
  /\ \E k \in DOMAIN inflight.searches :
       \E pages \in DashboardResponses :
         LET cleanName == inflight.searches[k]
             realData == fetchRealGithubData(cleanName, pages)
         IN /\ dashboard' =
                 IF "error" \in DOMAIN realData
                 THEN [loadMockData(dashboard, cleanName, DashboardMock)
                         EXCEPT !.errorMsg =
                                  [message |-> "Cannot fetch real data ("
                                                 \o realData.error
                                                 \o "), back in mock mode."],
                                !.isLoadingData = FALSE]
                 ELSE [resetFilters([dashboard EXCEPT !.data = realData,
                                                      !.isUsingMock = FALSE])
                         EXCEPT !.isLoadingData = FALSE]
            /\ inflight' = [inflight EXCEPT !.searches = RemoveAt(@, k)]
            /\ frame' = [cleanName |-> cleanName, pages |-> pages]
            /\ ret' = realData
  /\ UNCHANGED pc
  /\ DashboardFrame

NextDashboard ==
  \/ Mount
  \/ SearchInput
  \/ HandleLabelClick
  \/ AnalysisResolved
  \/ TagClick
  \/ ClosePanel
  \/ EditRepo
  \/ CancelEdit
  \/ InputName
  \/ HandleSearch
  \/ FetchSettled

SpecDashboard == InitDashboard /\ [][NextDashboard]_vars

\* ------------------------------------------------------------------------
\* Properties of the Dashboard
\* ------------------------------------------------------------------------

\* an analyzeSpecificLabel call for the selected label is pending
SelectedInFlight ==
  /\ dashboard.selectedLabel # Null
  /\ \E k \in DOMAIN inflight.analyses :
       inflight.analyses[k] = dashboard.selectedLabel.name

\* C25: under any interleaving of label clicks, toggle-offs and completions
\* of analyzeSpecificLabel, a labelAnalysis that is not null was requested
\* for the label that is selected now, and analyzingLabel is true whenever a
\* request for the selected label is still pending.
C25_AnalysisBelongsToSelectedLabel ==
  /\ dashboard.labelAnalysis # Null =>
       /\ dashboard.selectedLabel # Null
       /\ dashboard.labelAnalysis.requestedFor = dashboard.selectedLabel.name
  /\ SelectedInFlight => dashboard.analyzingLabel

\* C26: text search and label drill-down exclude each other after any
\* sequence of user actions: a searchTerm that is not empty and a
\* selectedLabel that is not null never hold together.
C26_SearchAndLabelExclusive ==
  ~(dashboard.searchTerm # "" /\ dashboard.selectedLabel # Null)

\* the step is the end of a handleSearch whose fetchRealGithubData settled
SearchSettles == Len(inflight'.searches) < Len(inflight.searches)

\* the step is a handleSearch of a blank input
BlankSubmitted ==
  inflight'.submits > inflight.submits /\ trim(dashboard.inputName) = ""

\* what a step that ends a handleSearch, or runs it on a blank input, does
\* according to C27
HandleSearchAsClaimed ==
  /\ SearchSettles =>
       /\ ~dashboard'.isLoadingData
       /\ IF "error" \in DOMAIN ret'
          THEN /\ dashboard'.isUsingMock
               /\ dashboard'.data.repoName = dashboard'.repoName
               /\ dashboard'.errorMsg # Null
          ELSE /\ dashboard'.data = ret'
               /\ ~dashboard'.isUsingMock
               /\ dashboard'.errorMsg = Null
  /\ BlankSubmitted =>
       /\ dashboard' = dashboard
       /\ inflight'.searches = inflight.searches

\* C27: a handleSearch of an input that is not blank ends with isLoadingData
\* false; if fetchRealGithubData threw, the dashboard then shows mock data of
\* the requested repository (isUsingMock, data.repoName = repoName) and an
\* errorMsg that is not null; if it returned, the dashboard shows the fetched
\* data with isUsingMock false and errorMsg null; a blank input changes no
\* state.
C27_HandleSearchSettles == [][HandleSearchAsClaimed]_vars

\* ------------------------------------------------------------------------
\* fetchRealGithubData step by step: one action for each request of the
\* pagination loop and one for the code after the loop.  calls is the
\* sequence of the fetch calls made, frame the locals page and allIssues.
\* ------------------------------------------------------------------------

InitFetch ==
  /\ op = "fetchRealGithubData"
  /\ pc = "while"
  /\ frame = [page |-> 1, allIssues |-> <<>>]
  /\ calls = <<>>
  /\ ret = NoValue
  /\ repoName = "facebook/react"
  /\ responses \in Responses
  /\ items = <<>>
  /\ dashboard = NoValue
  /\ inflight = NoValue
  /\ history = <<>>
  /\ config = BaselineConfig
  /\ values = <<>>

FetchFrame == UNCHANGED <<op, history, config, values, repoName, responses,
                          items, dashboard, inflight>>

\* one round of the while loop that does not break on an empty page:
\* a request is never followed by the test of data.length
RequestPage_noBreak ==
  /\ pc = "while"
  /\ frame.page <= maxPages
  /\ calls' = Append(calls, [page |-> frame.page])
  /\ LET response == responses[frame.page]
     IN IF ~response.ok
        THEN /\ pc' = "throw"
             /\ ret' = [error |-> "GitHub API Error"]
             /\ frame' = frame
        ELSE /\ pc' = "while"
             /\ ret' = ret
             /\ frame' = [page |-> frame.page + 1,
                          allIssues |-> frame.allIssues \o response.data]
  /\ FetchFrame

\* one round of the while loop: the request of page, then the throw, the
\* break or the next round
RequestPage ==
  /\ pc = "while"
  /\ frame.page <= maxPages
  /\ calls' = Append(calls, [page |-> frame.page])
  /\ LET response == responses[frame.page]
     IN IF ~response.ok
        THEN /\ pc' = "throw"
             /\ ret' = [error |-> IF response.status = 404
                                  THEN "Repo not found"
                                  ELSE IF response.status = 403
                                  THEN "API Rate Limit Exceeded. Please provide a Token."
                                  ELSE "GitHub API Error"]
             /\ frame' = frame
        ELSE IF Len(response.data) = 0
        THEN /\ pc' = "transform"
             /\ ret' = ret
             /\ frame' = frame
        ELSE /\ pc' = "while"
             /\ ret' = ret
             /\ frame' = [page |-> frame.page + 1,
                          allIssues |-> frame.allIssues \o response.data]
  /\ FetchFrame

\* the loop condition fails
ExitLoop ==
  /\ pc = "while"
  /\ frame.page > maxPages
  /\ pc' = "transform"
  /\ UNCHANGED <<frame, calls, ret>>
  /\ FetchFrame

\* the code after the loop: filter, map, statistics and return
TransformAndReturn ==
  /\ pc = "transform"
  /\ pc' = "return"
  /\ ret' = [repoName |-> repoName,
             issues |-> newestFirst(mappedIssues(frame.allIssues)),
             stats |-> fetchRealGithubData_stats(mappedIssues(frame.allIssues))]
  /\ UNCHANGED <<frame, calls>>
  /\ FetchFrame

NextFetch == RequestPage \/ ExitLoop \/ TransformAndReturn

\* the promise of every fetch settles and the code runs on
SpecFetch == InitFetch /\ [][NextFetch]_vars /\ WF_vars(NextFetch)

\* the message of the Error thrown for a response that is not OK
MessageFor(response) ==
  IF response.status = 404 THEN "Repo not found"
  ELSE IF response.status = 403
  THEN "API Rate Limit Exceeded. Please provide a Token."
  ELSE "GitHub API Error"

\* the records fetched that are no pull requests
NotPullRequests ==
  SelectSeq(frame.allIssues, LAMBDA item : item.pull_request = Undefined)

\* C28: fetchRealGithubData requests the pages 1, 2, 3 in that order, at most
\* 3 of them, and none after a page that was empty (or not OK), each round of
\* the loop advancing page so that the loop ends; a response that is not OK
\* makes the call throw the error of its status and nothing else; records
\* with pull_request are in no returned issue and in no statistic.
C28_PaginationBoundedAndClean ==
  /\ \A k \in DOMAIN calls : calls[k].page = k
  /\ Len(calls) <= 3
  /\ \A k \in DOMAIN calls :
       \A j \in 1..(k - 1) : responses[j].ok /\ Len(responses[j].data) > 0
  /\ pc = "while" => frame.page = Len(calls) + 1
  /\ pc \in {"while", "transform", "return", "throw"}
  /\ \A k \in DOMAIN calls :
       ~responses[k].ok =>
         pc = "throw" /\ ret = [error |-> MessageFor(responses[k])]
  /\ pc = "throw" => \E k \in DOMAIN calls : ~responses[k].ok
  /\ pc = "return" =>
       /\ Len(ret.issues) = Len(NotPullRequests)
       /\ \A i \in DOMAIN ret.issues :
            \E r \in DOMAIN NotPullRequests :
              NotPullRequests[r].number = ret.issues[i].id
       /\ ret.stats.total = Len(NotPullRequests)
       /\ ret.stats = fetchRealGithubData_stats(mappedIssues(NotPullRequests))

\* a call that made three requests and returned, a pull request among the
\* records
C28_Witness ==
  /\ op = "fetchRealGithubData"
  /\ pc = "return"
  /\ Len(calls) = 3
  /\ Len(NotPullRequests) < Len(frame.allIssues)
  /\ Len(NotPullRequests) > 0

\* ------------------------------------------------------------------------
\* ContributorHealthPanel: the statistics its effect computes from issues
\* ------------------------------------------------------------------------

MathMin(x, y) ==
  IF IsNaN(x) \/ IsNaN(y) THEN NaN
  ELSE IF Less(y, x) THEN y ELSE x

\* the entry of name in map, the sequence of the entries of the Map in
\* insertion order
EntryOf(map, name) == CHOOSE k \in 1..Len(map) : map[k].name = name

\* the forEach body that counts every issue of an assignee as open
countIssue_allOpen(map, i) ==
  IF i.assignee = Undefined THEN map
  ELSE LET entries ==
             IF \E k \in 1..Len(map) : map[k].name = i.assignee.login
             THEN map
             ELSE Append(map, [name |-> i.assignee.login, open |-> 0,
                               resolved |-> 0, totalDays |-> Number(0)])
           e == EntryOf(entries, i.assignee.login)
       IN [entries EXCEPT ![e] = [@ EXCEPT !.open = @ + 1]]

\* the body of issues.forEach: map after issue i
countIssue(map, i) ==
  IF i.assignee = Undefined THEN map
  ELSE LET entries ==
             IF \E k \in 1..Len(map) : map[k].name = i.assignee.login
             THEN map
             ELSE Append(map, [name |-> i.assignee.login, open |-> 0,
                               resolved |-> 0, totalDays |-> Number(0)])
           e == EntryOf(entries, i.assignee.login)
       IN IF i.status \in {IssueStatus.OPEN, IssueStatus.IN_PROGRESS}
          THEN [entries EXCEPT ![e] = [@ EXCEPT !.open = @ + 1]]
          ELSE IF i.status = IssueStatus.CLOSED /\ i.closedAt # Undefined
          THEN [entries EXCEPT ![e] =
                  [@ EXCEPT !.resolved = @ + 1,
                            !.totalDays = Add(@, days(i))]]
          ELSE entries

RECURSIVE contributorMap(_, _)
\* map after the first n issues
contributorMap(issues, n) ==
  IF n = 0 THEN <<>>
  ELSE countIssue(contributorMap(issues, n - 1), issues[n])

\* the ContributorStat of an entry of the Map
contributorStat(data) ==
  LET loadFactor == Div(MathMin(Number(10), Number(data.open)), Number(10))
      loadRisk == Mul(loadFactor, Number(60))
      velocityFactor ==
        Div(MathMin(Number(20), Number(data.resolved)), Number(20))
      velocityRisk == Mul(velocityFactor, Number(40))
      totalRisk == MathMin(Number(100), Add(loadRisk, velocityRisk))
  IN [name |-> data.name,
      activeLoad |-> data.open,
      totalResolved |-> data.resolved,
      avgDays |-> IF data.resolved > 0
                  THEN toFixed1(Div(data.totalDays, Number(data.resolved)))
                  ELSE Number(0),
      riskScore |-> MathRound(totalRisk)]

\* calculatedStats: the stats of the entries, highest riskScore first
calculatedStats(issues) ==
  LET map == contributorMap(issues, Len(issues))
      unsorted == [k \in 1..Len(map) |-> contributorStat(map[k])]
  IN SortedBy(unsorted, [k \in 1..Len(map) |-> 0 - unsorted[k].riskScore.num])

\* the most open and the most resolved issues of one contributor
MaxOpen == 11

MaxResolved == 21

\* the fields of an Issue the panel reads
PanelIssue(status, assignee, created, closed) ==
  [status |-> status, assignee |-> assignee,
   createdAt |-> created, closedAt |-> closed]

\* open issues of name that are Open and In Progress in turn, then resolved
\* issues closed after 1, 2, ... ticks
IssuesOf(name, open, resolved) ==
  [k \in 1..open |->
     PanelIssue(IF k % 2 = 1 THEN IssueStatus.OPEN
                ELSE IssueStatus.IN_PROGRESS,
                [login |-> name], DateOf(1, 0, 1, 0), Undefined)]
    \o [k \in 1..resolved |->
          PanelIssue(IssueStatus.CLOSED, [login |-> name],
                     DateOf(1, 1, 1, 0), closeDate(DateOf(1, 1, 1, 0), k))]

\* issues without assignee, open and closed, and a closed issue of dev_1
\* without closedAt
OtherIssues ==
  <<PanelIssue(IssueStatus.OPEN, Undefined, DateOf(1, 2, 1, 0), Undefined),
    PanelIssue(IssueStatus.CLOSED, Undefined, DateOf(1, 2, 1, 0),
               closeDate(DateOf(1, 2, 1, 0), 3)),
    PanelIssue(IssueStatus.CLOSED, [login |-> "dev_1"], DateOf(1, 2, 2, 0),
               Undefined)>>

\* the issues prop: the issues of two contributors, in either order, with or
\* without the other issues between them
PanelIssues ==
  {[k \in 1..Len(issues) |-> [id |-> k] @@ issues[k]] :
     issues \in
       UNION {{IssuesOf("dev_1", o1, r1) \o others \o IssuesOf("dev_2", o2, r2),
               IssuesOf("dev_2", o2, r2) \o others \o IssuesOf("dev_1", o1, r1)} :
                <<o1, r1, o2, r2, others>> \in
                  (0..MaxOpen) \X (0..MaxResolved) \X {0, 4, MaxOpen}
                    \X {0, MaxResolved} \X {<<>>, OtherIssues}}}

InitPanel ==
  /\ op = "ContributorHealthPanel"
  /\ pc = "effect"
  /\ items \in PanelIssues
  /\ ret = NoValue
  /\ frame = NoValue
  /\ calls = <<>>
  /\ repoName = "facebook/react"
  /\ responses = <<>>
  /\ dashboard = NoValue
  /\ inflight = NoValue
  /\ history = <<>>
  /\ config = BaselineConfig
  /\ values = <<>>

\* the effect on issues: setStats(calculatedStats)
CalculateStats ==
  /\ op = "ContributorHealthPanel"
  /\ pc = "effect"
  /\ pc' = "rendered"
  /\ ret' = [stats |-> calculatedStats(items)]
  /\ UNCHANGED <<op, history, config, values, frame, calls, repoName,
                 responses, items, dashboard, inflight>>

NextPanel == CalculateStats

SpecPanel == InitPanel /\ [][NextPanel]_vars

\* the issues of the collection assigned to name
AssignedTo(name) ==
  SelectSeq(items, LAMBDA i : i.assignee = [login |-> name])

\* those of them that are open or in progress, and those resolved
OpenLoadOf(name) ==
  Len(SelectSeq(AssignedTo(name),
                LAMBDA i : i.status \in {IssueStatus.OPEN,
                                         IssueStatus.IN_PROGRESS}))

ResolvedBy(name) ==
  Len(SelectSeq(AssignedTo(name),
                LAMBDA i : i.status = IssueStatus.CLOSED
                             /\ i.closedAt # Undefined))

\* round(min(10, open) / 10 * 60 + min(20, resolved) / 20 * 40), the sum
\* written over the denominator 200
RiskOf(open, resolved) ==
  LET mo == IF open < 10 THEN open ELSE 10
      mr == IF resolved < 20 THEN resolved ELSE 20
  IN (2 * (1200 * mo + 400 * mr) + 200) \div 400

\* C30: every ContributorStat has an integer riskScore in 0..100 equal to
\* round(min(10, open)/10 * 60 + min(20, resolved)/20 * 40), which does not
\* decrease with the open load; issues without assignee contribute to no
\* contributor, an assigned issue is counted in at most one of activeLoad
\* and totalResolved, and the stats are ordered by riskScore descending.
C30_RiskScoreAndOrder ==
  pc = "rendered" =>
    LET stats == ret.stats
    IN /\ \A k \in DOMAIN stats :
            /\ stats[k].riskScore.den = 1
            /\ stats[k].riskScore.num \in 0..100
            /\ stats[k].riskScore.num
                 = RiskOf(OpenLoadOf(stats[k].name), ResolvedBy(stats[k].name))
            /\ stats[k].activeLoad = OpenLoadOf(stats[k].name)
            /\ stats[k].totalResolved = ResolvedBy(stats[k].name)
            /\ stats[k].activeLoad + stats[k].totalResolved
                 <= Len(AssignedTo(stats[k].name))
       /\ \A j \in DOMAIN stats : \A k \in DOMAIN stats :
            /\ j # k => stats[j].name # stats[k].name
            /\ (stats[j].totalResolved = stats[k].totalResolved
                  /\ stats[j].activeLoad <= stats[k].activeLoad)
                 => stats[j].riskScore.num <= stats[k].riskScore.num
            /\ j < k => stats[j].riskScore.num >= stats[k].riskScore.num
       /\ {stats[k].name : k \in DOMAIN stats}
            = {items[i].assignee.login :
                 i \in {n \in DOMAIN items : items[n].assignee # Undefined}}

\* stats of two contributors, the first over both caps, the second under
\* them, from a collection with issues without assignee and a closed issue
\* without closedAt
C30_Witness ==
  /\ op = "ContributorHealthPanel"
  /\ pc = "rendered"
  /\ Len(ret.stats) = 2
  /\ ret.stats[1].activeLoad > 10
  /\ ret.stats[1].totalResolved > 20
  /\ ret.stats[1].riskScore = Number(100)
  /\ ret.stats[2].riskScore.num \in 1..99
  /\ \E i \in DOMAIN items : items[i].assignee = Undefined
  /\ ret.stats[1].activeLoad + ret.stats[1].totalResolved
       < Len(AssignedTo(ret.stats[1].name))

====
